---------------------------- MODULE Spec2Model ----------------------------
(***************************************************************************)
(* Risk quantification model engine (pyqt_fac_mvp): the model contract     *)
(* (run of the six registered models), the FTA sensitivity analysis, the   *)
(* Monte Carlo sampling under the process-wide numpy generator, and the    *)
(* dataset snapshots produced by the fusion pipeline.                      *)
(*                                                                         *)
(* Floating point probabilities are modelled as exact rationals <<n, d>>   *)
(* (d > 0, reduced); Python's None is NoneP.                               *)
(***************************************************************************)
EXTENDS Integers, Sequences, FiniteSets, TLC

VARIABLES
    \* ---- record store (the SQLite tables, rows of the one stored mission)
    risk_event,      \* table risk_event: rows [likelihood, severity]
    fmea_item,       \* table fmea_item: rows [S, O, D]
    fta_node,        \* table fta_node: node id -> row
    fta_edge,        \* table fta_edge: node id -> child ids
    indicator_value, \* table indicator_value: indicator id -> stored value
    fusion_rule,     \* table fusion_rule: rows [id, input_ids, method, weights]
    risk_dataset,    \* table risk_dataset: rows in insertion (id) order
    tie_break,       \* row order the SQLite build gives equal created_at
    now,             \* datetime.now() at second resolution
    \* ---- one _run_fta call, step by step
    fta_params,      \* params of the call: sensitivity_delta, top_n_sensitivity
    fta_pc,          \* position of the call inside _run_fta/_sensitivity_analysis
    node_dict,       \* the FTANode objects loaded by the call (node id -> object)
    base_p_top,      \* baseline top event probability (line 365)
    basic_idx,       \* index of the loop of line 369 in basic_nodes
    orig_prob,       \* orig_prob of the node being perturbed (line 370)
    p_top_minus,     \* top event probability with the node at minus_prob
    results,         \* FTASensitivityItem list built by the loop
    fta_result,      \* what _run_fta returned (or the failure run reported)
    \* ---- the registry's model instances and the calls of run
    thr,             \* thread -> the call of run it is executing
    self_top_n,      \* model id -> the instance attribute self.top_n
    rng,             \* state of numpy's process-wide generator
    \* ---- Monte Carlo runs
    rng_replays,     \* states rng has over all initial entropies (same calls)
    mc_last,         \* the latest Monte Carlo run (<<>>: none yet)
    mc_ref,          \* an earlier seeded Monte Carlo run (<<>>: none)
    \* ---- dataset generation and its consumers
    gen_count,       \* number of generate_risk_dataset calls so far
    ds_call,         \* the latest AHP / Monte Carlo-AHP evaluation (<<>>: none)
    \* ---- pure functions
    probe,           \* the latest function evaluation: inputs and output (<<>>: none)
    \* ---- model registry
    registry,        \* ModelRegistry: _instance, _models and the latest call on it
    \* ---- overlapping FTA runs
    fta_run          \* run -> the locals of its _run_fta call (<<>>: no run tracked)

storeVars == <<risk_event, fmea_item, fta_node, fta_edge, indicator_value,
               fusion_rule, risk_dataset, tie_break, now>>

ftaCallVars == <<fta_params, fta_pc, node_dict, base_p_top, basic_idx, orig_prob,
                 p_top_minus, results, fta_result>>

runVars == <<thr, self_top_n>>

mcVars == <<rng_replays, mc_last, mc_ref>>

dsVars == <<gen_count, ds_call>>

vars == <<storeVars, ftaCallVars, runVars, rng, mcVars, dsVars, probe, registry, fta_run>>

\* What an FTA step leaves alone outside the FTA tables and call.
ftaFrame == <<risk_event, fmea_item, indicator_value, fusion_rule, risk_dataset,
              tie_break, now, runVars, rng, mcVars, dsVars, probe, registry, fta_run>>

-----------------------------------------------------------------------------
(* Exact rational arithmetic standing for Python floats. *)

NoneP == <<0, 0>>

RECURSIVE Gcd(_, _)
Gcd(a, b) == IF b = 0 THEN a ELSE Gcd(b, a % b)

AbsI(x) == IF x < 0 THEN -x ELSE x

Norm(n, d) ==
    LET g == Gcd(AbsI(n), d)
    IN  IF n = 0 THEN <<0, 1>> ELSE <<n \div g, d \div g>>

Rat(n, d) == Norm(n, d)
Zero == <<0, 1>>
One == <<1, 1>>

RAdd(a, b) == Norm(a[1] * b[2] + b[1] * a[2], a[2] * b[2])
RSub(a, b) == Norm(a[1] * b[2] - b[1] * a[2], a[2] * b[2])
RMul(a, b) == Norm(a[1] * b[1], a[2] * b[2])
RLe(a, b) == a[1] * b[2] <= b[1] * a[2]
RLt(a, b) == a[1] * b[2] < b[1] * a[2]
RAbs(a) == <<AbsI(a[1]), a[2]>>
\* Python's max(a, b) / min(a, b): the first argument wins a tie.
RMax(a, b) == IF RLt(a, b) THEN b ELSE a
RMin(a, b) == IF RLt(b, a) THEN b ELSE a

\* Python's s[:n] for n >= 0.
Take(s, n) == SubSeq(s, 1, IF n < Len(s) THEN n ELSE Len(s))

\* The list a loop builds by appending f[1], ..., f[n] in turn.
RECURSIVE AsList(_, _)
AsList(f, n) == IF n = 0 THEN <<>> ELSE Append(AsList(f, n - 1), f[n])

-----------------------------------------------------------------------------
(* Model registry: src/app/models/base.py, src/app/models/__init__.py      *)
(*                                                                         *)
(* _models is a dict in insertion order: a sequence of [key, model], a     *)
(* model being [model_id, category, obj] with obj the object's identity.   *)

\* dict lookup: the position of key (0: absent).
KeyIndex(models, key) ==
    IF \E k \in DOMAIN models : models[k].key = key
    THEN CHOOSE k \in DOMAIN models : models[k].key = key
    ELSE 0

\* A list that takes every registered model as a new entry.
registry_register_append(models, model) ==
    Append(models, [key |-> model.model_id, model |-> model])

\* register: self._models[model.model_id] = model.
registry_register(models, model) ==
    IF KeyIndex(models, model.model_id) # 0
    THEN [models EXCEPT ![KeyIndex(models, model.model_id)].model = model]
    ELSE Append(models, [key |-> model.model_id, model |-> model])

\* unregister: del self._models[model_id] if it is there.
registry_unregister(models, model_id) ==
    LET i == KeyIndex(models, model_id)
    IN  IF i = 0 THEN models
        ELSE SubSeq(models, 1, i - 1) \o SubSeq(models, i + 1, Len(models))

\* get: self._models.get(model_id), <<>> for None.
registry_get(models, model_id) ==
    IF KeyIndex(models, model_id) = 0 THEN <<>>
    ELSE <<models[KeyIndex(models, model_id)].model>>

get_all(models) == [k \in 1..Len(models) |-> models[k].model]
get_model_ids(models) == [k \in 1..Len(models) |-> models[k].key]

RECURSIVE get_models_by_category(_, _)
get_models_by_category(models, category) ==
    IF models = <<>> THEN <<>>
    ELSE (IF Head(models).model.category = category THEN <<Head(models).model>> ELSE <<>>)
         \o get_models_by_category(Tail(models), category)

\* The six classes under @register_model, in the order app/models/__init__.py
\* imports them, with their category.
BuiltinModels ==
    <<[model_id |-> "risk_matrix", category |-> "risk_assessment", obj |-> 1],
      [model_id |-> "fmea", category |-> "risk_assessment", obj |-> 1],
      [model_id |-> "sensitivity", category |-> "uncertainty", obj |-> 1],
      [model_id |-> "fta", category |-> "quantitative", obj |-> 1],
      [model_id |-> "ahp_improved", category |-> "composite", obj |-> 1],
      [model_id |-> "monte_carlo", category |-> "uncertainty", obj |-> 1]>>

RECURSIVE RegisterAll(_, _)
RegisterAll(models, list) ==
    IF list = <<>> THEN models
    ELSE RegisterAll(registry_register(models, Head(list)), Tail(list))

NoOp == [op |-> "none"]

\* ModelRegistry.__new__ on the class state: the one instance, created with
\* an empty _models on the first call.
registry_new(reg) ==
    IF reg.instance = 0 THEN [reg EXCEPT !.instance = 1, !.models = <<>>] ELSE reg

\* The process before app.models is imported, and after.
FreshRegistry == [instance |-> 0, models |-> <<>>, imported |-> FALSE, op |-> NoOp]
ImportedRegistry ==
    [instance |-> 1, models |-> RegisterAll(<<>>, BuiltinModels), imported |-> TRUE,
     op |-> NoOp]

-----------------------------------------------------------------------------
(* Deterministic scoring models and OAT sensitivity:                       *)
(* src/app/models/types.py, risk_matrix.py, fmea.py, sensitivity.py        *)

MaxI(a, b) == IF a >= b THEN a ELSE b
MinI(a, b) == IF a <= b THEN a ELSE b

\* from_score with every threshold taken as exclusive.
from_score_exclusive(r) ==
    IF r < 4 THEN "Low"
    ELSE IF r < 9 THEN "Medium"
    ELSE IF r < 16 THEN "High"
    ELSE "Extreme"

\* RiskLevel.from_score
from_score(r) ==
    IF r <= 4 THEN "Low"
    ELSE IF r <= 9 THEN "Medium"
    ELSE IF r <= 16 THEN "High"
    ELSE "Extreme"

\* FMEARiskLevel.from_rpn
from_rpn(rpn) ==
    IF rpn <= 100 THEN "Low"
    ELSE IF rpn <= 300 THEN "Medium"
    ELSE IF rpn <= 600 THEN "High"
    ELSE "Extreme"

\* sorted(xs, key=..., reverse=True) as the permutation of indices it
\* applies: descending in the key, equal keys in their original order.
RECURSIVE InsertIdxDesc(_, _, _)
InsertIdxDesc(sorted, i, keys) ==
    IF sorted = <<>> THEN <<i>>
    ELSE IF keys[Head(sorted)] < keys[i]
         THEN <<i>> \o sorted
         ELSE <<Head(sorted)>> \o InsertIdxDesc(Tail(sorted), i, keys)

RECURSIVE SortPermPrefix(_, _)
SortPermPrefix(keys, n) ==
    IF n = 0 THEN <<>>
    ELSE InsertIdxDesc(SortPermPrefix(keys, n - 1), n, keys)

\* The list left in the order of the query.
SortedKeepOrder(xs, keys) == xs

SortedDesc(xs, keys) ==
    LET perm == SortPermPrefix(keys, Len(keys))
    IN  [i \in 1..Len(xs) |-> xs[perm[i]]]

RECURSIVE SumSeq(_)
SumSeq(s) == IF s = <<>> THEN 0 ELSE Head(s) + SumSeq(Tail(s))

\* round(total / count, 2) in hundredths: the nearest hundredth, a tie to the
\* even one (a tie is a multiple of 1/8, which the float division gives
\* exactly).
Round2x100(total, count) ==
    LET q == (100 * total) \div count
        r == (100 * total) % count
    IN  IF 2 * r < count THEN q
        ELSE IF 2 * r > count THEN q + 1
        ELSE IF q % 2 = 0 THEN q ELSE q + 1

CountLevel(levels, l) == Cardinality({i \in DOMAIN levels : levels[i] = l})

LevelCounts(levels) ==
    [Low |-> CountLevel(levels, "Low"), Medium |-> CountLevel(levels, "Medium"),
     High |-> CountLevel(levels, "High"), Extreme |-> CountLevel(levels, "Extreme")]

\* RiskMatrixModel.run lines 83-173, given the loaded events and the value
\* self.top_n holds when line 124 reads it.
risk_matrix_data(events, top_n) ==
    IF events = <<>> THEN
        [total |-> 0, avg_x100 |-> 0, level_counts |-> LevelCounts(<<>>), top_n |-> <<>>,
         top_n_count |-> 0]
    ELSE
        LET event_results ==
                [i \in 1..Len(events) |->
                    [id |-> i, likelihood |-> events[i].likelihood,
                     severity |-> events[i].severity,
                     risk_score |-> events[i].likelihood * events[i].severity,
                     level |-> from_score(events[i].likelihood * events[i].severity)]]
            sorted_events ==
                SortedDesc(event_results, [i \in 1..Len(events) |-> event_results[i].risk_score])
            top_n_events == Take(sorted_events, top_n)
            total_risk == SumSeq([i \in 1..Len(events) |-> event_results[i].risk_score])
        IN  [total |-> total_risk, avg_x100 |-> Round2x100(total_risk, Len(events)),
             level_counts |-> LevelCounts([i \in 1..Len(events) |-> event_results[i].level]),
             top_n |-> top_n_events, top_n_count |-> Len(top_n_events)]

\* FMEAModel.run lines 80-150.
fmea_data(items, top_n) ==
    IF items = <<>> THEN
        [total |-> 0, level_counts |-> LevelCounts(<<>>), top_n |-> <<>>, top_n_count |-> 0]
    ELSE
        LET item_results ==
                [i \in 1..Len(items) |->
                    [id |-> i, S |-> items[i].S, O |-> items[i].O, D |-> items[i].D,
                     RPN |-> items[i].S * items[i].O * items[i].D,
                     level |-> from_rpn(items[i].S * items[i].O * items[i].D)]]
            sorted_items ==
                SortedDesc(item_results, [i \in 1..Len(items) |-> item_results[i].RPN])
            top_n_items == Take(sorted_items, top_n)
        IN  [total |-> SumSeq([i \in 1..Len(items) |-> item_results[i].RPN]),
             level_counts |-> LevelCounts([i \in 1..Len(items) |-> item_results[i].level]),
             top_n |-> top_n_items, top_n_count |-> Len(top_n_items)]

\* A factor whose impact is the smaller of the two deviations.
FactorMinImpact(id, pt, base, minus, plus) ==
    [event_id |-> id, param_type |-> pt, base_value |-> base, minus_value |-> minus,
     plus_value |-> plus,
     impact_score |-> MinI(AbsI(minus - base), AbsI(plus - base))]

\* SensitivityFactor as lines 141-155 build it.
Factor(id, pt, base, minus, plus) ==
    [event_id |-> id, param_type |-> pt, base_value |-> base, minus_value |-> minus,
     plus_value |-> plus,
     impact_score |-> MaxI(AbsI(minus - base), AbsI(plus - base))]

\* SensitivityModel.run_risk_matrix, with self.top_n as line 181 reads it.
sens_risk_matrix(events, top_n) ==
    IF events = <<>> THEN [base |-> 0, factors |-> <<>>, top_n |-> <<>>, top_n_count |-> 0]
    ELSE
        LET base_total == SumSeq([i \in 1..Len(events) |->
                                     events[i].likelihood * events[i].severity])
            FactorAt(k) ==
                LET e == events[(k + 1) \div 2]
                    base_r == e.likelihood * e.severity
                IN  IF k % 2 = 1
                    THEN Factor((k + 1) \div 2, "L", base_total,
                                base_total - base_r + MaxI(1, e.likelihood - 1) * e.severity,
                                base_total - base_r + MinI(5, e.likelihood + 1) * e.severity)
                    ELSE Factor((k + 1) \div 2, "S", base_total,
                                base_total - base_r + e.likelihood * MaxI(1, e.severity - 1),
                                base_total - base_r + e.likelihood * MinI(5, e.severity + 1))
            factors == [k \in 1..(2 * Len(events)) |-> FactorAt(k)]
            sorted_factors ==
                SortedDesc(factors, [k \in 1..Len(factors) |-> factors[k].impact_score])
            top_n_factors == Take(sorted_factors, top_n)
        IN  [base |-> base_total, factors |-> factors, top_n |-> top_n_factors,
             top_n_count |-> Len(top_n_factors)]

\* SensitivityModel.run_fmea, with self.top_n as line 266 reads it.
sens_fmea(items, top_n) ==
    IF items = <<>> THEN [base |-> 0, factors |-> <<>>, top_n |-> <<>>, top_n_count |-> 0]
    ELSE
        LET base_total == SumSeq([i \in 1..Len(items) |-> items[i].S * items[i].O * items[i].D])
            FactorAt(k) ==
                LET it == items[(k + 1) \div 2]
                    base_rpn == it.S * it.O * it.D
                IN  IF k % 2 = 1
                    THEN Factor((k + 1) \div 2, "O", base_total,
                                base_total - base_rpn + it.S * MaxI(1, it.O - 1) * it.D,
                                base_total - base_rpn + it.S * MinI(10, it.O + 1) * it.D)
                    ELSE Factor((k + 1) \div 2, "D", base_total,
                                base_total - base_rpn + it.S * it.O * MaxI(1, it.D - 1),
                                base_total - base_rpn + it.S * it.O * MinI(10, it.D + 1))
            factors == [k \in 1..(2 * Len(items)) |-> FactorAt(k)]
            sorted_factors ==
                SortedDesc(factors, [k \in 1..Len(factors) |-> factors[k].impact_score])
            top_n_factors == Take(sorted_factors, top_n)
        IN  [base |-> base_total, factors |-> factors, top_n |-> top_n_factors,
             top_n_count |-> Len(top_n_factors)]

-----------------------------------------------------------------------------
(* Indicators, fusion pipeline and dataset snapshots:                      *)
(* src/app/pipeline/risk_identification.py, src/app/db/dao.py              *)

RDiv(a, b) ==
    IF b[1] < 0 THEN Norm(-(a[1] * b[2]), a[2] * (-b[1]))
    ELSE Norm(a[1] * b[2], a[2] * b[1])

RECURSIVE RSum(_)
RSum(s) == IF s = <<>> THEN Zero ELSE RAdd(Head(s), RSum(Tail(s)))

\* Table indicator: two indicators, distribution_type 'normal', no
\* dist_params_json.
IndicatorTable ==
    <<[id |-> 1, weight |-> Rat(1, 1)], [id |-> 2, weight |-> Rat(3, 1)]>>

\* A stored indicator_value.value: absent, text that float() rejects, or a
\* numeric string.
NoValue == <<"none", 0>>
ValueSet == {NoValue, <<"text", 0>>, <<"num", 2>>, <<"num", 4>>}

IsFloat(v) == v[1] = "num"
Float(v) == Rat(v[2], 1)

MinSigma == Rat(1, 1000000)

\* max(1e-6, abs(x) * 0.1)
default_sigma(x) == RMax(MinSigma, RMul(RAbs(x), Rat(1, 10)))

\* total_weight: the declared weights of the indicators that have a value.
RECURSIVE total_weight(_, _)
total_weight(vals, i) ==
    IF i > Len(IndicatorTable) THEN Zero
    ELSE RAdd(IF vals[IndicatorTable[i].id] # NoValue
              THEN IndicatorTable[i].weight ELSE Zero,
              total_weight(vals, i + 1))

\* indicator_list of generate_risk_dataset (lines 180-211).
RECURSIVE indicator_list(_, _)
indicator_list(vals, i) ==
    IF i > Len(IndicatorTable) THEN <<>>
    ELSE
        LET ind == IndicatorTable[i]
            v == vals[ind.id]
            x == IF IsFloat(v) THEN Float(v) ELSE Zero
            tw == total_weight(vals, 1)
            row == [indicator_id |-> ind.id, value |-> x, source |-> v[1],
                    distribution_type |-> "normal", mu |-> x,
                    sigma |-> default_sigma(x),
                    weight |-> IF RLt(Zero, tw) THEN RDiv(ind.weight, tw) ELSE One]
        IN  (IF v = NoValue THEN <<>> ELSE <<row>>) \o indicator_list(vals, i + 1)

\* input_values of apply_fusion_rule (lines 105-122).
RECURSIVE input_values(_, _, _)
input_values(input_ids, vals, i) ==
    IF i > Len(input_ids) THEN <<>>
    ELSE (IF input_ids[i] \in DOMAIN vals /\ IsFloat(vals[input_ids[i]])
          THEN <<Float(vals[input_ids[i]])>> ELSE <<>>)
         \o input_values(input_ids, vals, i + 1)

RECURSIVE RMaxSeq(_)
RMaxSeq(s) == IF Len(s) = 1 THEN s[1] ELSE RMax(s[1], RMaxSeq(Tail(s)))

RECURSIVE RMinSeq(_)
RMinSeq(s) == IF Len(s) = 1 THEN s[1] ELSE RMin(s[1], RMinSeq(Tail(s)))

RMean(s) == RDiv(RSum(s), Rat(Len(s), 1))

\* apply_fusion_rule: a rule is [id, input_ids, method, weights_ok, weights].
apply_fusion_rule(rule, vals) ==
    LET ivs == input_values(rule.input_ids, vals, 1)
        weights == IF Len(rule.weights) # Len(ivs)
                   THEN [k \in 1..Len(ivs) |-> RDiv(One, Rat(Len(ivs), 1))]
                   ELSE rule.weights
        fused_value ==
            IF rule.method = "mean" THEN RMean(ivs)
            ELSE IF rule.method = "weighted_sum" THEN
                IF rule.weights_ok
                THEN RSum([k \in 1..Len(ivs) |-> RMul(weights[k], ivs[k])])
                ELSE RMean(ivs)
            ELSE IF rule.method = "max" THEN RMaxSeq(ivs)
            ELSE IF rule.method = "min" THEN RMinSeq(ivs)
            ELSE RMean(ivs)
    IN  IF ivs = <<>> THEN [error |-> TRUE, value |-> Zero]
        ELSE [error |-> FALSE, value |-> fused_value]

\* fused_list of generate_risk_dataset (lines 213-226).
RECURSIVE fused_list(_, _, _)
fused_list(rules, vals, i) ==
    IF i > Len(rules) THEN <<>>
    ELSE
        LET fused == apply_fusion_rule(rules[i], vals)
            row == [indicator_id |-> -(rules[i].id), value |-> fused.value,
                    source |-> "fused", distribution_type |-> "normal",
                    mu |-> fused.value, sigma |-> default_sigma(fused.value),
                    weight |-> RDiv(One, Rat(Len(rules) + 1, 1))]
        IN  (IF fused.error THEN <<>> ELSE <<row>>) \o fused_list(rules, vals, i + 1)

\* The row generate_risk_dataset inserts (lines 229-246): dataset_json is
\* the serialised dataset_dict, created_at the clock at second resolution.
new_dataset(mission_id, clock, vals, rules) ==
    [mission_id |-> mission_id, created_at |-> clock,
     dataset_json |-> [text |-> "json",
                       indicators |-> indicator_list(vals, 1),
                       fused_indicators |-> fused_list(rules, vals, 1)]]

\* RiskDatasetDAO.get_latest_by_mission: ORDER BY created_at DESC LIMIT 1.
\* SQL leaves the order among equal created_at open; tie is the build's
\* fixed choice ("first" or "last" inserted).  0: no row.
get_latest_by_mission(rows, mission_id, tie) ==
    LET mine == {i \in 1..Len(rows) : rows[i].mission_id = mission_id}
        newest == {i \in mine : \A j \in mine : rows[j].created_at <= rows[i].created_at}
    IN  IF mine = {} THEN 0
        ELSE CHOOSE i \in newest :
                \A j \in newest : IF tie = "first" THEN i <= j ELSE j <= i

\* "if dataset and dataset.dataset_json": a row whose text is non-empty.
HasDatasetJson(rows, idx) == idx # 0 /\ rows[idx].dataset_json.text # "empty"

-----------------------------------------------------------------------------
(* Improved AHP model: src/app/models/ahp_improved.py                      *)

ParsedRow(ind) ==
    [indicator_id |-> ind.indicator_id, value |-> ind.value,
     weight |-> ind.weight, mu |-> ind.mu, sigma |-> ind.sigma]

\* _parse_dataset: json.loads, then the six fields of each indicator and
\* fused indicator; [] when the text does not parse.
parse_dataset(dataset_json) ==
    IF dataset_json.text # "json" THEN <<>>
    ELSE [k \in 1..Len(dataset_json.indicators) |->
             ParsedRow(dataset_json.indicators[k])]
         \o [k \in 1..Len(dataset_json.fused_indicators) |->
                ParsedRow(dataset_json.fused_indicators[k])]

\* _get_indicator_values: the live values; a value float() rejects is
\* skipped (but its indicator's weight stays in total_weight).
RECURSIVE get_indicator_values(_, _)
get_indicator_values(vals, i) ==
    IF i > Len(IndicatorTable) THEN <<>>
    ELSE
        LET ind == IndicatorTable[i]
            v == vals[ind.id]
            x == Float(v)
            tw == total_weight(vals, 1)
            row == [indicator_id |-> ind.id, value |-> x,
                    weight |-> IF RLt(Zero, tw) THEN RDiv(ind.weight, tw)
                               ELSE RDiv(One, Rat(Len(IndicatorTable), 1)),
                    mu |-> x, sigma |-> default_sigma(x)]
        IN  (IF IsFloat(v) THEN <<row>> ELSE <<>>) \o get_indicator_values(vals, i + 1)

\* round(x, 4) on a non-negative value: nearest multiple of 1e-4, ties to even.
Round4(x) ==
    LET scaled == x[1] * 10000
        q == scaled \div x[2]
        rem2 == 2 * (scaled % x[2])
        up == rem2 > x[2] \/ (rem2 = x[2] /\ q % 2 = 1)
    IN  Rat(IF up THEN q + 1 ELSE q, 10000)

score_to_level(score) ==
    IF RLt(score, Rat(1, 4)) THEN "Low"
    ELSE IF RLt(score, Rat(1, 2)) THEN "Medium"
    ELSE IF RLt(score, Rat(3, 4)) THEN "High"
    ELSE "Extreme"

\* Lines 213-268 for indicator data whose value equals its mu (z = 0) or
\* lies FarZ sigmas or more above it.  The density c is
\* exp(-z*z/2)/(sigma*sqrt(2*pi)), carried here without the common factor
\* 1/sqrt(2*pi) that cancels in w_prime.
\* "if sigma < 1e-10: sigma = 1e-6"; n/d < 1e-10 is decided in two steps
\* of 1e5 to stay inside 32-bit integers.
ahp_sigma(sigma) ==
    IF sigma[1] * 100000 <= (sigma[2] - 1) \div 100000 THEN MinSigma ELSE sigma

\* z = (x - mu) / sigma (line 229).
z_score(row) == RDiv(RSub(row.value, row.mu), ahp_sigma(row.sigma))

\* From FarZ on, math.exp(-0.5 * z * z) underflows to 0.0 and
\* 1 / (1 + math.exp(-z)) is 1.0 in double precision.
FarZ == 39

\* math.exp(-0.5 * z * z) for z = 0 and for z >= FarZ.
exp_neg_half_sq(z) == IF z = Zero THEN One ELSE Zero

\* 1 / (1 + math.exp(-z)) for z = 0 and for z >= FarZ.
sigmoid(z) == IF z = Zero THEN Rat(1, 2) ELSE One

\* c of line 233, without the common factor 1/sqrt(2*pi).
correction_factor(data) ==
    [k \in 1..Len(data) |->
        RMul(RDiv(One, ahp_sigma(data[k].sigma)), exp_neg_half_sq(z_score(data[k])))]

\* w * c of line 236.
weight_correction(data) ==
    [k \in 1..Len(data) |->
        RMul(data[k].weight,
             RMul(RDiv(One, ahp_sigma(data[k].sigma)), exp_neg_half_sq(z_score(data[k]))))]

\* w_prime of lines 252-255 from the products wc = w * c.
ahp_w_prime(data, wc, k) ==
    IF RLt(Zero, RSum(wc)) THEN RDiv(wc[k], RSum(wc))
    ELSE RDiv(data[k].weight, Rat(Len(data), 1))

\* corrected_weight of every indicator result (lines 252-256).
ahp_corrected_weights(data) ==
    LET wc == AsList(weight_correction(data), Len(data))
    IN  AsList([k \in 1..Len(data) |-> ahp_w_prime(data, wc, k)], Len(data))

ahp_total_score(data) ==
    LET wc == AsList(weight_correction(data), Len(data))
    IN  RSum([k \in 1..Len(data) |->
                 RMul(ahp_w_prime(data, wc, k), sigmoid(z_score(data[k])))])

\* _run_ahp: indicator data from the snapshot idx (0: none) or the live
\* values, then the score.
ahp_indicator_data(use_dataset, rows, idx, vals) ==
    IF use_dataset /\ HasDatasetJson(rows, idx)
    THEN parse_dataset(rows[idx].dataset_json)
    ELSE get_indicator_values(vals, 1)

run_ahp(use_dataset, rows, idx, vals) ==
    LET data == ahp_indicator_data(use_dataset, rows, idx, vals)
    IN  IF data = <<>>
        THEN [success |-> TRUE, total_score |-> Zero, risk_level |-> "Low",
              indicator_results |-> <<>>]
        ELSE LET total_score == ahp_total_score(data)
             IN  [success |-> TRUE, total_score |-> Round4(total_score),
                  risk_level |-> score_to_level(total_score),
                  indicator_results |-> data]

-----------------------------------------------------------------------------
(* Monte Carlo model: src/app/models/monte_carlo.py                        *)
(*                                                                         *)
(* numpy's process-wide generator is a state in 0..RngMod-1 stepped by a   *)
(* full-period congruential map; a uniform draw is state/RngMod.           *)

RngMod == 16
MaxSamples == 2

NextRng(r) == (5 * r + 3) % RngMod

\* The generator state after k draws from state r.  Every sampling call of
\* the model (np.random.choice, np.random.normal) takes one draw, so the
\* k-th call after state r sees RngAt(r, k).
RECURSIVE RngAt(_, _)
RngAt(r, k) == IF k = 0 THEN r ELSE NextRng(RngAt(r, k - 1))

\* np.random.seed(seed): the state becomes a function of the seed alone.
SeedRng(seed) == seed % RngMod

\* A seed step that would skip seed 0.
ReseedsPositive(seed) == seed > 0

\* Line 214-215: the generator is reseeded only for seed >= 0.
Reseeds(seed) == seed >= 0

RngAfterSeedStep(seed, r) == IF Reseeds(seed) THEN SeedRng(seed) ELSE r

RECURSIVE CumSum(_, _)
CumSum(w, i) == IF i = 0 THEN 0 ELSE w[i] + CumSum(w, i - 1)

\* np.random.choice(candidates, p=probs) on the draw u/RngMod: the first
\* candidate whose cumulative probability exceeds the draw.
Choice(cands, wts, u) ==
    cands[CHOOSE i \in 1..Len(cands) :
             /\ u * CumSum(wts, Len(wts)) < CumSum(wts, i) * RngMod
             /\ \A j \in 1..(i - 1) :
                   ~(u * CumSum(wts, Len(wts)) < CumSum(wts, j) * RngMod)]

\* The candidate list without the domain checks.
discrete_candidates_unclamped(nominal, min_val, max_val) ==
    <<nominal, nominal - 1, nominal + 1>>

\* _sample_discrete lines 246-257: the candidates nominal, nominal-1,
\* nominal+1 inside [min_val, max_val], in the order they are appended.
discrete_candidates(nominal, min_val, max_val) ==
    <<nominal>>
        \o (IF nominal - 1 >= min_val THEN <<nominal - 1>> ELSE <<>>)
        \o (IF nominal + 1 <= max_val THEN <<nominal + 1>> ELSE <<>>)

\* Their weights 0.6 / 0.2 / 0.2, in tenths.
discrete_weights(nominal, min_val, max_val) ==
    <<6>>
        \o (IF nominal - 1 >= min_val THEN <<2>> ELSE <<>>)
        \o (IF nominal + 1 <= max_val THEN <<2>> ELSE <<>>)

\* Lines 259-260: probs = [p / total_prob for p in probs].
discrete_probs(nominal, min_val, max_val) ==
    LET w == discrete_weights(nominal, min_val, max_val)
    IN  [i \in 1..Len(w) |-> Rat(w[i], CumSum(w, Len(w)))]

\* _sample_discrete on the draw u/RngMod.
sample_discrete(nominal, min_val, max_val, u) ==
    Choice(discrete_candidates(nominal, min_val, max_val),
           discrete_weights(nominal, min_val, max_val),
           u)

\* The sample loops of lines 328-336: row k holds the sampled R of every
\* event; sample k, event i takes draws 2*((k-1)*len + i-1) + 1 and + 2.
McRmSamples(events, n_samples, r) ==
    AsList([k \in 1..n_samples |->
        AsList([i \in 1..Len(events) |->
            sample_discrete(events[i].likelihood, 1, 5,
                            RngAt(r, 2 * ((k - 1) * Len(events) + i - 1) + 1))
            * sample_discrete(events[i].severity, 1, 5,
                              RngAt(r, 2 * ((k - 1) * Len(events) + i - 1) + 2))],
               Len(events))], n_samples)

\* The sample loops of lines 397-406: three draws (S, O, D) per item.
McFmeaSamples(items, n_samples, r) ==
    AsList([k \in 1..n_samples |->
        AsList([i \in 1..Len(items) |->
            sample_discrete(items[i].S, 1, 10,
                            RngAt(r, 3 * ((k - 1) * Len(items) + i - 1) + 1))
            * sample_discrete(items[i].O, 1, 10,
                              RngAt(r, 3 * ((k - 1) * Len(items) + i - 1) + 2))
            * sample_discrete(items[i].D, 1, 10,
                              RngAt(r, 3 * ((k - 1) * Len(items) + i - 1) + 3))],
               Len(items))], n_samples)

\* The statistics of a sample matrix: the raw totals (histogram_data), their
\* sum (the mean times n_samples) and the count at or above the threshold
\* (prob_high times n_samples), and the per-record sample rows.
McTotals(rows) == AsList([k \in 1..Len(rows) |-> SumSeq(rows[k])], Len(rows))

McStats(rows, nominal, threshold) ==
    LET totals == McTotals(rows)
    IN  [nominal_value |-> nominal, n_samples |-> Len(rows), event_samples |-> rows,
         histogram_data |-> totals, sum |-> SumSeq(totals),
         high_count |-> Cardinality({k \in 1..Len(rows) : totals[k] >= threshold})]

McEmptyStats(n_samples) ==
    [nominal_value |-> 0, n_samples |-> n_samples, event_samples |-> <<>>,
     histogram_data |-> <<>>, sum |-> 0, high_count |-> 0]

\* MonteCarloModel.run_risk_matrix: <<result, rng>>.
mc_run_risk_matrix(events, n_samples, r) ==
    IF events = <<>> THEN <<McEmptyStats(n_samples), r>>
    ELSE <<McStats(McRmSamples(events, n_samples, r),
                   SumSeq([i \in 1..Len(events) |->
                              events[i].likelihood * events[i].severity]),
                   10 * Len(events)),
           RngAt(r, 2 * n_samples * Len(events))>>

\* MonteCarloModel.run_fmea: <<result, rng>>.
mc_run_fmea(items, n_samples, r) ==
    IF items = <<>> THEN <<McEmptyStats(n_samples), r>>
    ELSE <<McStats(McFmeaSamples(items, n_samples, r),
                   SumSeq([i \in 1..Len(items) |-> items[i].S * items[i].O * items[i].D]),
                   300 * Len(items)),
           RngAt(r, 3 * n_samples * Len(items))>>

\* np.random.normal(mu, sigma) = mu + sigma * Z on the draw u/RngMod; the
\* standard normal deviate Z is taken from {-1, 0, 1} by thirds of the draw.
NormalZ(u) == IF 3 * u < RngMod THEN -1 ELSE IF 3 * u < 2 * RngMod THEN 0 ELSE 1

\* _sample_by_distribution for 'normal' with dist_params {mu, sigma}.
sample_by_distribution(mu, sigma, u) == RAdd(mu, RMul(Rat(NormalZ(u), 1), sigma))

\* The sample loop of lines 497-516: row k holds the sampled value of every
\* indicator; one draw each.
McAhpSamples(inds, n_samples, r) ==
    AsList([k \in 1..n_samples |->
        AsList([i \in 1..Len(inds) |->
            sample_by_distribution(inds[i].mu, inds[i].sigma,
                                   RngAt(r, (k - 1) * Len(inds) + i))],
               Len(inds))], n_samples)

\* w_prime of lines 571-574 from the products wc = w * c.
mc_w_prime(wc, k) ==
    IF RLt(Zero, RSum(wc)) THEN RDiv(wc[k], RSum(wc)) ELSE RDiv(One, Rat(Len(wc), 1))

mc_total_weight(inds) ==
    LET w_sum == RSum([k \in 1..Len(inds) |-> inds[k].weight])
    IN  IF w_sum = Zero THEN Rat(Len(inds), 1) ELSE w_sum

\* w * c of every indicator in _calc_ahp_score (lines 556-568), c as in
\* correction_factor.
mc_weight_correction(inds) ==
    LET tw == mc_total_weight(inds)
    IN  AsList([k \in 1..Len(inds) |->
                   RMul(RDiv(inds[k].weight, tw),
                        RMul(RDiv(One, ahp_sigma(inds[k].sigma)),
                             exp_neg_half_sq(z_score(inds[k]))))],
               Len(inds))

\* The w_prime of every indicator in _calc_ahp_score.
mc_corrected_weights(inds) ==
    LET wc == mc_weight_correction(inds)
    IN  AsList([k \in 1..Len(inds) |-> mc_w_prime(wc, k)], Len(inds))

\* _calc_ahp_score (for a non-empty list).
mc_calc_ahp_score(inds) ==
    LET wp == mc_corrected_weights(inds)
    IN  RSum([k \in 1..Len(inds) |-> RMul(wp[k], sigmoid(z_score(inds[k])))])

McAhpEmpty(n_samples) ==
    [nominal_score |-> Zero, n_samples |-> n_samples, histogram_data |-> <<>>]

\* all_indicators of line 472: the snapshot's indicators and fused ones.
all_indicators(dataset_json) ==
    dataset_json.indicators \o dataset_json.fused_indicators

\* MonteCarloModel.run_ahp_score: <<result, rng>>.  A score sample is
\* _calc_ahp_score of the sampled values and is carried as those values.
mc_run_ahp_score(rows, idx, n_samples, r) ==
    IF ~HasDatasetJson(rows, idx) \/ rows[idx].dataset_json.text # "json"
    THEN <<McAhpEmpty(n_samples), r>>
    ELSE IF all_indicators(rows[idx].dataset_json) = <<>>
    THEN <<McAhpEmpty(n_samples), r>>
    ELSE <<[nominal_score |->
                Round4(mc_calc_ahp_score(all_indicators(rows[idx].dataset_json))),
            n_samples |-> n_samples,
            histogram_data |->
                McAhpSamples(all_indicators(rows[idx].dataset_json), n_samples, r)],
           RngAt(r, n_samples * Len(all_indicators(rows[idx].dataset_json)))>>

\* MonteCarloModel.run, lines 209-235: seed step, then the enabled analyses
\* in order, each starting from the generator state the one before left
\* (rm, fm, ah are <<result, rng>>).  An analysis that did not run leaves no
\* entry (<<>>).  Returns <<result, rng>>.
mc_results(params, rm, fm, ah) ==
    <<[success |-> TRUE,
       risk_matrix |-> IF params.run_risk_matrix THEN <<rm[1]>> ELSE <<>>,
       fmea |-> IF params.run_fmea THEN <<fm[1]>> ELSE <<>>,
       ahp |-> IF params.run_ahp THEN <<ah[1]>> ELSE <<>>],
      ah[2]>>

mc_from_ahp(params, rows, idx, rm, fm) ==
    mc_results(params, rm, fm,
               IF params.run_ahp
               THEN mc_run_ahp_score(rows, idx, params.n_samples, fm[2])
               ELSE <<McAhpEmpty(0), fm[2]>>)

mc_from_fmea(params, items, rows, idx, rm) ==
    mc_from_ahp(params, rows, idx, rm,
                IF params.run_fmea
                THEN mc_run_fmea(items, params.n_samples, rm[2])
                ELSE <<McEmptyStats(0), rm[2]>>)

\* Lines 217-229 from the generator state the seed step left.
mc_run_from(params, events, items, rows, idx, start) ==
    mc_from_fmea(params, items, rows, idx,
                 IF params.run_risk_matrix
                 THEN mc_run_risk_matrix(events, params.n_samples, start)
                 ELSE <<McEmptyStats(0), start>>)

mc_run(params, events, items, rows, idx, r) ==
    mc_run_from(params, events, items, rows, idx,
                RngAfterSeedStep(params.random_seed, r))

\* The same call followed from every generator state in rs: the set of
\* <<state before the call, <<result, rng>>>>.  States that the seed step
\* maps to the same start are computed once.
mc_replays(params, events, items, rows, idx, rs) ==
    LET outs == {<<s, mc_run_from(params, events, items, rows, idx, s)>> :
                    s \in {RngAfterSeedStep(params.random_seed, e) : e \in rs}}
    IN  {<<e, (CHOOSE o \in outs : o[1] = RngAfterSeedStep(params.random_seed, e))[2]>> :
            e \in rs}

-----------------------------------------------------------------------------
(* FTA model: src/app/models/fta.py *)

\* bool(probability): None and 0.0 are both falsy.
Truthy(p) == p # NoneP /\ p[1] # 0

DefaultBasicProb == Rat(1, 100)

\* Lines 303-306: prob = 1.0; for p in child_probs: prob *= p.
RECURSIVE and_gate_prob(_)
and_gate_prob(child_probs) ==
    IF child_probs = <<>> THEN One
    ELSE RMul(and_gate_prob(SubSeq(child_probs, 1, Len(child_probs) - 1)),
              child_probs[Len(child_probs)])

\* The rare-event approximation of an OR gate: the sum of the children.
RECURSIVE or_gate_sum(_)
or_gate_sum(child_probs) ==
    IF child_probs = <<>> THEN Zero
    ELSE RMin(One, RAdd(or_gate_sum(Tail(child_probs)), Head(child_probs)))

\* Lines 308-312: prob = 1.0; for p in child_probs: prob *= (1 - p);
\* prob = 1 - prob.
or_gate_prob(child_probs) ==
    RSub(One, and_gate_prob([i \in 1..Len(child_probs) |-> RSub(One, child_probs[i])]))

RECURSIVE calc_node_prob(_, _, _, _, _)
RECURSIVE calc_child_probs(_, _, _, _, _)

\* Returns <<prob, result, trace>>: the node's probability, the memo dict and
\* the nodes whose probability has been computed, in order.
calc_node_prob(node_id, nd, cm, result, trace) ==
    IF node_id \in DOMAIN result THEN <<result[node_id], result, trace>>
    ELSE IF node_id \notin DOMAIN nd THEN <<Zero, result, trace>>
    ELSE IF nd[node_id].node_type = "BASIC" THEN
        LET prob == IF nd[node_id].probability # NoneP
                    THEN nd[node_id].probability ELSE DefaultBasicProb
        IN  <<prob, (node_id :> prob) @@ result, Append(trace, node_id)>>
    ELSE
        LET children == IF node_id \in DOMAIN cm THEN cm[node_id] ELSE <<>>
        IN  IF children = <<>>
            THEN <<Zero, (node_id :> Zero) @@ result, Append(trace, node_id)>>
            ELSE
              LET cp == calc_child_probs(children, nd, cm, result, trace)
                  child_probs == cp[1]
                  prob == IF nd[node_id].gate_type = "AND"
                          THEN and_gate_prob(child_probs)
                          ELSE or_gate_prob(child_probs)
              IN  <<prob, (node_id :> prob) @@ cp[2], Append(cp[3], node_id)>>

\* The list comprehension of line 298: children evaluated left to right,
\* sharing the memo dict. Returns <<child_probs, result, trace>>.
calc_child_probs(children, nd, cm, result, trace) ==
    IF children = <<>> THEN <<(<<>>), result, trace>>
    ELSE
        LET first == calc_node_prob(Head(children), nd, cm, result, trace)
            rest == calc_child_probs(Tail(children), nd, cm, first[2], first[3])
        IN  <<(<<first[1]>>) \o rest[1], rest[2], rest[3]>>

calculate_probabilities(node_id, nd, cm) ==
    calc_node_prob(node_id, nd, cm, <<>>, <<>>)[2]

\* dict.get(key, 0) on a probability dict.
GetProb(d, k) == IF k \in DOMAIN d THEN d[k] ELSE Zero

probability_to_likelihood(p) ==
    IF RLt(p, Rat(1, 100000)) THEN 1
    ELSE IF RLt(p, Rat(1, 10000)) THEN 2
    ELSE IF RLt(p, Rat(1, 1000)) THEN 3
    ELSE IF RLt(p, Rat(1, 100)) THEN 4
    ELSE 5

get_risk_level(r) ==
    IF r <= 4 THEN "Low"
    ELSE IF r <= 9 THEN "Medium"
    ELSE IF r <= 16 THEN "High"
    ELSE "Extreme"

\* Bounds of the FTA inputs.
MaxTopN == 2

ProbSet == {NoneP, Zero, Rat(1, 100), Rat(1, 2), One}
DeltaSet == {Rat(1, 10), Rat(1, 2)}
GateSet == {"AND", "OR"}

Row(t, g, p, s) == [node_type |-> t, gate_type |-> g, probability |-> p, severity |-> s]

\* Fault trees of one mission: TOP over two basic events, TOP over an
\* intermediate gate over one basic event, a graph without a TOP node, and
\* the empty graph.  severity 0 stands for an unset severity.
TreeSet ==
    { [node |-> <<Row("TOP", g, NoneP, s), Row("BASIC", "", p2, 0), Row("BASIC", "", p3, 0)>>,
       edge |-> <<(<<2, 3>>), (<<>>), (<<>>)>>] :
          g \in GateSet, s \in {0, 4}, p2 \in ProbSet, p3 \in ProbSet }
    \cup
    { [node |-> <<Row("TOP", "OR", NoneP, 0), Row("INTERMEDIATE", g, NoneP, 0), Row("BASIC", "", p3, 0)>>,
       edge |-> <<(<<2>>), (<<3>>), (<<>>)>>] :
          g \in GateSet, p3 \in ProbSet }
    \cup
    { [node |-> <<Row("INTERMEDIATE", "OR", NoneP, 0), Row("BASIC", "", p2, 0)>>,
       edge |-> <<(<<2>>), (<<>>)>>] : p2 \in ProbSet }
    \cup
    { [node |-> <<>>, edge |-> <<>>] }

\* FTANodeDAO.get_top_node: the row with node_type = 'TOP' (0: no such row).
get_top_node(store) ==
    IF \E i \in DOMAIN store : store[i].node_type = "TOP"
    THEN CHOOSE i \in DOMAIN store :
            /\ store[i].node_type = "TOP"
            /\ \A j \in DOMAIN store : store[j].node_type = "TOP" => i <= j
    ELSE 0

\* basic_nodes of line 358, in dict (id) order.
RECURSIVE IdsOfType(_, _, _)
IdsOfType(nd, t, i) ==
    IF i > Len(nd) THEN <<>>
    ELSE (IF nd[i].node_type = t THEN <<i>> ELSE <<>>) \o IdsOfType(nd, t, i + 1)

basic_nodes(nd) == IdsOfType(nd, "BASIC", 1)

\* list.sort(key=impact_score, reverse=True): stable, descending.
RECURSIVE InsertByImpact(_, _)
InsertByImpact(sorted, x) ==
    IF sorted = <<>> THEN <<x>>
    ELSE IF RLt(Head(sorted).impact_score, x.impact_score)
         THEN <<x>> \o sorted
         ELSE <<Head(sorted)>> \o InsertByImpact(Tail(sorted), x)

RECURSIVE SortByImpact(_)
SortByImpact(s) ==
    IF s = <<>> THEN <<>>
    ELSE InsertByImpact(SortByImpact(SubSeq(s, 1, Len(s) - 1)), s[Len(s)])

NoDataResult(name) ==
    [success |-> TRUE, top_event_name |-> name, top_event_probability |-> Zero,
     likelihood_level |-> 1, severity_level |-> 1, risk_score |-> 1,
     risk_level |-> "Low", sensitivity |-> <<>>]

FailedResult == [success |-> FALSE]

\* minus_prob / plus_prob of lines 373 and 379.
minus_prob(orig, delta) == RMax(Zero, RMul(orig, RSub(One, delta)))
plus_prob(orig, delta) == RMin(One, RMul(orig, RAdd(One, delta)))

\* orig_prob of line 370.
OrigProbOf(p) == IF Truthy(p) THEN p ELSE DefaultBasicProb

\* What line 385 writes back after the two perturbations.
RestoredProb(orig) == orig

\* The loop of lines 369-397 from basic node i on: <<items, node_dict>>.
RECURSIVE sensitivity_loop(_, _, _, _, _, _)
sensitivity_loop(nd, cm, top_id, delta, base, i) ==
    IF i > Len(basic_nodes(nd)) THEN <<(<<>>), nd>>
    ELSE
        LET b == basic_nodes(nd)[i]
            orig == OrigProbOf(nd[b].probability)
            nd_minus == [nd EXCEPT ![b].probability = minus_prob(orig, delta)]
            p_minus == GetProb(calculate_probabilities(top_id, nd_minus, cm), top_id)
            nd_plus == [nd EXCEPT ![b].probability = plus_prob(orig, delta)]
            p_plus == GetProb(calculate_probabilities(top_id, nd_plus, cm), top_id)
            nd_rest == [nd EXCEPT ![b].probability = RestoredProb(orig)]
            item == [node_id |-> b, base_probability |-> orig,
                     minus_prob |-> p_minus, plus_prob |-> p_plus,
                     impact_score |-> RMax(RAbs(RSub(p_minus, base)),
                                           RAbs(RSub(p_plus, base)))]
            rest == sensitivity_loop(nd_rest, cm, top_id, delta, base, i + 1)
        IN  <<(<<item>>) \o rest[1], rest[2]>>

\* _sensitivity_analysis as one call: <<top-N items, node_dict afterwards>>.
sensitivity_analysis(top_id, nd, cm, delta, top_n) ==
    IF basic_nodes(nd) = <<>> THEN <<(<<>>), nd>>
    ELSE
        LET base == GetProb(calculate_probabilities(top_id, nd, cm), top_id)
            lp == sensitivity_loop(nd, cm, top_id, delta, base, 1)
        IN  <<Take(SortByImpact(lp[1]), top_n), lp[2]>>

\* _run_fta as one call on the rows it loaded: <<FTAResult, node_dict>>.
run_fta(nodes, cm, params) ==
    LET top_id == get_top_node(nodes)
        p_top == GetProb(calculate_probabilities(top_id, nodes, cm), top_id)
        l_level == probability_to_likelihood(p_top)
        s_level == IF nodes[top_id].severity # 0 THEN nodes[top_id].severity
                   ELSE params.default_severity
        r_score == l_level * s_level
        sens == sensitivity_analysis(top_id, nodes, cm, params.sensitivity_delta,
                                     params.top_n_sensitivity)
    IN  IF nodes = <<>> THEN <<NoDataResult("no data"), nodes>>
        ELSE IF top_id = 0 THEN <<NoDataResult("no top event"), nodes>>
        ELSE <<[success |-> TRUE, top_event_name |-> "top",
                top_event_probability |-> p_top,
                likelihood_level |-> l_level, severity_level |-> s_level,
                risk_score |-> r_score, risk_level |-> get_risk_level(r_score),
                sensitivity |-> sens[1]],
               sens[2]>>

\* A save of every node object back to its row.
NodesWrittenBack(store, nd) == nd

\* No statement of fta.py saves a node object: the perturbed FTANode objects
\* are dropped when _run_fta returns and table fta_node keeps its rows.
NodesPersisted(store, nd) == store

IndIds == {IndicatorTable[i].id : i \in 1..Len(IndicatorTable)}

\* The tables other than fta_node / fta_edge hold no rows.
OtherTablesEmpty ==
    /\ risk_event = <<>>
    /\ fmea_item = <<>>
    /\ indicator_value = [i \in IndIds |-> NoValue]
    /\ fusion_rule = <<>>
    /\ risk_dataset = <<>>
    /\ tie_break = "first"
    /\ now = 0

\* The process has just started: ModelRegistry holds one freshly constructed
\* instance per model (self.top_n = 10) and no call of run is under way.
NoCalls ==
    /\ thr = [t \in {1} |-> [pc |-> "idle", model |-> "", mission |-> <<>>,
                             params |-> [kind |-> "missing", top_n |-> <<>>,
                                         analysis_type |-> "risk_matrix"],
                             success |-> FALSE, data |-> <<>>, loads |-> 0,
                             faulted |-> FALSE, first |-> <<>>]]
    /\ self_top_n = [m \in {"risk_matrix", "fmea", "sensitivity"} |-> 10]
    /\ rng = 0
    /\ rng_replays = 0..(RngMod - 1)
    /\ mc_last = <<>>
    /\ mc_ref = <<>>
    /\ gen_count = 0
    /\ probe = <<>>
    /\ registry = ImportedRegistry
    /\ fta_run = <<>>
    /\ ds_call = <<>>

FtaInit ==
    /\ \E tree \in TreeSet : fta_node = tree.node /\ fta_edge = tree.edge
    /\ \E d \in DeltaSet, n \in 1..MaxTopN, ds \in {3} :
          fta_params = [sensitivity_delta |-> d, top_n_sensitivity |-> n,
                        default_severity |-> ds]
    /\ fta_pc = "idle"
    /\ node_dict = <<>>
    /\ base_p_top = Zero
    /\ basic_idx = 0
    /\ orig_prob = NoneP
    /\ p_top_minus = Zero
    /\ results = <<>>
    /\ fta_result = [success |-> FALSE]
    /\ OtherTablesEmpty
    /\ NoCalls

\* _run_fta lines 180-239 and _sensitivity_analysis lines 358-365: load the
\* node objects, evaluate the tree, enter the perturbation loop.
FtaStart ==
    /\ UNCHANGED ftaFrame
    /\ fta_pc = "idle"
    /\ node_dict' = fta_node
    /\ UNCHANGED <<fta_node, fta_edge, fta_params, orig_prob, p_top_minus, results>>
    /\ LET top_id == get_top_node(fta_node)
           node_probs == calculate_probabilities(top_id, fta_node, fta_edge)
           p_top == GetProb(node_probs, top_id)
           l_level == probability_to_likelihood(p_top)
           s_level == IF fta_node[top_id].severity # 0
                      THEN fta_node[top_id].severity
                      ELSE fta_params.default_severity
           r_score == l_level * s_level
       IN  IF fta_node = <<>> THEN
               /\ fta_result' = NoDataResult("no data")
               /\ fta_pc' = "done"
               /\ UNCHANGED <<base_p_top, basic_idx>>
           ELSE IF top_id = 0 THEN
               /\ fta_result' = NoDataResult("no top event")
               /\ fta_pc' = "done"
               /\ UNCHANGED <<base_p_top, basic_idx>>
           ELSE
               /\ fta_result' =
                     [success |-> TRUE, top_event_name |-> "top",
                      top_event_probability |-> p_top,
                      likelihood_level |-> l_level, severity_level |-> s_level,
                      risk_score |-> r_score, risk_level |-> get_risk_level(r_score),
                      sensitivity |-> <<>>]
               /\ base_p_top' = p_top
               /\ IF basic_nodes(fta_node) = <<>>
                  THEN fta_pc' = "done" /\ basic_idx' = 0
                  ELSE fta_pc' = "minus" /\ basic_idx' = 1

\* Lines 370-376: perturb the node downwards and recompute the top event.
FtaMinus ==
    /\ UNCHANGED ftaFrame
    /\ fta_pc = "minus"
    /\ LET b == basic_nodes(node_dict)[basic_idx]
           orig == OrigProbOf(node_dict[b].probability)
           nd == [node_dict EXCEPT ![b].probability =
                      minus_prob(orig, fta_params.sensitivity_delta)]
           top_id == get_top_node(fta_node)
       IN  /\ orig_prob' = orig
           /\ node_dict' = nd
           /\ p_top_minus' = GetProb(calculate_probabilities(top_id, nd, fta_edge), top_id)
    /\ fta_pc' = "plus"
    /\ UNCHANGED <<fta_node, fta_edge, fta_params, base_p_top, basic_idx, results, fta_result>>

\* Lines 370-375 when _calculate_probabilities raises at line 375: the
\* exception leaves _sensitivity_analysis and _run_fta and is caught by run
\* (lines 169-175), which reports a failed ModelResult.
FtaMinusRaise ==
    /\ UNCHANGED ftaFrame
    /\ fta_pc = "minus"
    /\ LET b == basic_nodes(node_dict)[basic_idx]
           orig == OrigProbOf(node_dict[b].probability)
       IN  /\ orig_prob' = orig
           /\ node_dict' = [node_dict EXCEPT ![b].probability =
                               minus_prob(orig, fta_params.sensitivity_delta)]
    /\ fta_pc' = "failed"
    /\ fta_result' = FailedResult
    /\ UNCHANGED <<fta_node, fta_edge, fta_params, base_p_top, basic_idx, p_top_minus, results>>

\* Lines 378-397: perturb upwards, recompute, restore, record the item.
FtaPlus ==
    /\ UNCHANGED ftaFrame
    /\ fta_pc = "plus"
    /\ LET b == basic_nodes(node_dict)[basic_idx]
           nd == [node_dict EXCEPT ![b].probability =
                      plus_prob(orig_prob, fta_params.sensitivity_delta)]
           top_id == get_top_node(fta_node)
           p_top_plus == GetProb(calculate_probabilities(top_id, nd, fta_edge), top_id)
           impact == RMax(RAbs(RSub(p_top_minus, base_p_top)),
                          RAbs(RSub(p_top_plus, base_p_top)))
       IN  /\ node_dict' = [nd EXCEPT ![b].probability = RestoredProb(orig_prob)]
           /\ results' = Append(results,
                 [node_id |-> b, base_probability |-> orig_prob,
                  minus_prob |-> p_top_minus, plus_prob |-> p_top_plus,
                  impact_score |-> impact])
    /\ basic_idx' = basic_idx + 1
    /\ fta_pc' = IF basic_idx + 1 > Len(basic_nodes(node_dict)) THEN "finish" ELSE "minus"
    /\ UNCHANGED <<fta_node, fta_edge, fta_params, base_p_top, orig_prob, p_top_minus, fta_result>>

\* Lines 378-381 when _calculate_probabilities raises at line 381.
FtaPlusRaise ==
    /\ UNCHANGED ftaFrame
    /\ fta_pc = "plus"
    /\ LET b == basic_nodes(node_dict)[basic_idx]
       IN  node_dict' = [node_dict EXCEPT ![b].probability =
                            plus_prob(orig_prob, fta_params.sensitivity_delta)]
    /\ fta_pc' = "failed"
    /\ fta_result' = FailedResult
    /\ UNCHANGED <<fta_node, fta_edge, fta_params, base_p_top, basic_idx, orig_prob,
                   p_top_minus, results>>

\* Lines 399-401 and 248-257: rank, truncate, return.
FtaFinish ==
    /\ UNCHANGED ftaFrame
    /\ fta_pc = "finish"
    /\ fta_result' = [fta_result EXCEPT !.sensitivity =
                         Take(SortByImpact(results), fta_params.top_n_sensitivity)]
    /\ fta_pc' = "done"
    /\ UNCHANGED <<fta_node, fta_edge, fta_params, node_dict, base_p_top, basic_idx,
                   orig_prob, p_top_minus, results>>

FtaNext == FtaStart \/ FtaMinus \/ FtaMinusRaise \/ FtaPlus \/ FtaPlusRaise \/ FtaFinish

SpecFTA == FtaInit /\ [][FtaNext]_vars

-----------------------------------------------------------------------------
(* The model contract: run(context) of the six registered models           *)
(* src/app/models/{risk_matrix,fmea,sensitivity,fta,ahp_improved,          *)
(* monte_carlo}.py                                                         *)

Models == {"risk_matrix", "fmea", "sensitivity", "fta", "ahp_improved", "monte_carlo"}
TopNModels == {"risk_matrix", "fmea", "sensitivity"}

\* context.get("mission_id"): None (also a context without the key), 0, or
\* the id of the stored mission.
NoMission == <<>>
MissionSet == {NoMission, <<0>>, <<1>>}

\* "not mission_id": None and 0 are both falsy.
Falsy(mission) == mission = NoMission \/ mission = <<0>>

\* The get_by_mission queries (WHERE mission_id = ?): only mission 1 has rows.
events_of(mission) == IF mission = <<1>> THEN risk_event ELSE <<>>
items_of(mission) == IF mission = <<1>> THEN fmea_item ELSE <<>>
nodes_of(mission) == IF mission = <<1>> THEN fta_node ELSE <<>>
edges_of(mission) == IF mission = <<1>> THEN fta_edge ELSE <<>>
values_of(mission) ==
    IF mission = <<1>> THEN indicator_value
    ELSE [i \in DOMAIN indicator_value |-> NoValue]
latest_of(mission) ==
    IF mission = NoMission THEN 0
    ELSE get_latest_by_mission(risk_dataset, mission[1], tie_break)

\* context["params"]: the key missing, a value that is not a dict (None, a
\* list), or a dict with or without "top_n" / "analysis_type".
Params(kind, top_n, analysis_type) ==
    [kind |-> kind, top_n |-> top_n, analysis_type |-> analysis_type]

DefaultTopN == 10

\* params.get("top_n", 10)
params_top_n(p) == IF p.top_n = <<>> THEN DefaultTopN ELSE p.top_n[1]

\* get_default_params() of the FTA model.
FtaDefaults ==
    [sensitivity_delta |-> Rat(1, 10), top_n_sensitivity |-> 10, default_severity |-> 3]

\* The Monte Carlo defaults, with n_samples brought down to MaxSamples.
McDefaults ==
    [n_samples |-> MaxSamples, random_seed |-> 42, run_risk_matrix |-> TRUE,
     run_fmea |-> TRUE, run_ahp |-> TRUE]

IdleCall ==
    [pc |-> "idle", model |-> "", mission |-> NoMission,
     params |-> Params("missing", <<>>, "risk_matrix"),
     success |-> FALSE, data |-> <<>>, loads |-> 0, faulted |-> FALSE, first |-> <<>>]

\* return ModelResult(success=False, ...)
Failed(c) == [c EXCEPT !.pc = "returned", !.success = FALSE, !.data = <<>>]

\* return ModelResult(success=True, data=...)
Succeeded(c, data) == [c EXCEPT !.pc = "returned", !.success = TRUE, !.data = <<data>>]

\* A caller invokes model.run(context).
RunCall(t, model, mission, params) ==
    /\ thr[t].pc = "idle"
    /\ thr' = [thr EXCEPT ![t] = [IdleCall EXCEPT !.pc = "enter", !.model = model,
                                      !.mission = mission, !.params = params]]
    /\ UNCHANGED <<storeVars, ftaCallVars, self_top_n, rng, mcVars, dsVars, probe, registry, fta_run>>

\* run, up to its first query.  risk_matrix.py 67-77, fmea.py, sensitivity.py
\* 72-75: the mission_id check (not in sensitivity), then params.get outside
\* the try block, which raises AttributeError to the caller when params is
\* not a dict.  fta.py 150-161, ahp_improved.py 160-171, monte_carlo.py
\* 198-212: "not mission_id" fails the result; params.get of a value that is
\* not a dict raises inside the try block (ahp, monte_carlo) and is reported.
RunEnter(t) ==
    LET c == thr[t]
    IN  /\ c.pc = "enter"
        /\ UNCHANGED <<storeVars, ftaCallVars, rng, mcVars, dsVars, probe, registry, fta_run>>
        /\ IF c.model \in {"risk_matrix", "fmea"} /\ c.mission = NoMission THEN
               /\ thr' = [thr EXCEPT ![t] = Failed(c)]
               /\ UNCHANGED self_top_n
           ELSE IF c.model \in TopNModels THEN
               IF c.params.kind = "notdict" THEN
                   /\ thr' = [thr EXCEPT ![t].pc = "escaped"]
                   /\ UNCHANGED self_top_n
               ELSE
                   /\ self_top_n' = [self_top_n EXCEPT ![c.model] = params_top_n(c.params)]
                   /\ thr' = [thr EXCEPT ![t].pc = "load"]
           ELSE
               /\ UNCHANGED self_top_n
               /\ IF Falsy(c.mission) THEN thr' = [thr EXCEPT ![t] = Failed(c)]
                  ELSE IF c.model # "fta" /\ c.params.kind = "notdict"
                       THEN thr' = [thr EXCEPT ![t] = Failed(c)]
                       ELSE thr' = [thr EXCEPT ![t].pc = "load"]

\* The DAO queries of the call return.
RunLoad(t) ==
    /\ thr[t].pc = "load"
    /\ thr' = [thr EXCEPT ![t].pc = "compute", ![t].loads = @ + 1]
    /\ UNCHANGED <<storeVars, ftaCallVars, self_top_n, rng, mcVars, dsVars, probe, registry, fta_run>>

\* A DAO query raises (sqlite3.Error): every query is inside the try block.
RunLoadRaise(t) ==
    /\ thr[t].pc = "load"
    /\ thr' = [thr EXCEPT ![t] = [Failed(thr[t]) EXCEPT !.loads = @ + 1, !.faulted = TRUE]]
    /\ UNCHANGED <<storeVars, ftaCallVars, self_top_n, rng, mcVars, dsVars, probe, registry, fta_run>>

\* The FTA call fails in the try block when params is not a dict and the
\* tree has a TOP node (params.get at line 221 or 242).
FtaParamsRaise(c) ==
    /\ c.params.kind = "notdict"
    /\ nodes_of(c.mission) # <<>>
    /\ get_top_node(nodes_of(c.mission)) # 0

\* data of the ModelResult the call builds from the loaded rows.  The three
\* Top-N models read self.top_n here, after the queries.
ModelData(c) ==
    IF c.model = "risk_matrix"
        THEN risk_matrix_data(events_of(c.mission), self_top_n["risk_matrix"])
    ELSE IF c.model = "fmea"
        THEN fmea_data(items_of(c.mission), self_top_n["fmea"])
    ELSE IF c.model = "sensitivity" THEN
        IF c.params.analysis_type = "risk_matrix"
        THEN sens_risk_matrix(events_of(c.mission), self_top_n["sensitivity"])
        ELSE sens_fmea(items_of(c.mission), self_top_n["sensitivity"])
    ELSE IF c.model = "fta"
        THEN run_fta(nodes_of(c.mission), edges_of(c.mission), FtaDefaults)[1]
    ELSE run_ahp(TRUE, risk_dataset, latest_of(c.mission), values_of(c.mission))

\* The Monte Carlo call of c followed from every state of rng_replays.
McCallReplays(c) ==
    mc_replays(McDefaults, events_of(c.mission), items_of(c.mission), risk_dataset,
               latest_of(c.mission), rng_replays)

\* <<result, rng>> of the replay that was in state e before the call.
McOut(reps, e) == (CHOOSE o \in reps : o[1] = e)[2]

\* The rest of the try block: compute and return.  Monte Carlo advances the
\* process-wide generator; FTA perturbs its node objects.
RunCompute(t) ==
    LET c == thr[t]
    IN  /\ c.pc = "compute"
        /\ IF c.model = "monte_carlo" THEN
               \E reps \in {McCallReplays(c)} :
                   /\ thr' = [thr EXCEPT ![t] = Succeeded(c, McOut(reps, rng)[1])]
                   /\ rng' = McOut(reps, rng)[2]
                   /\ rng_replays' = {o[2][2] : o \in reps}
                   /\ UNCHANGED fta_node
           ELSE IF c.model = "fta" THEN
               /\ thr' = [thr EXCEPT ![t] = IF FtaParamsRaise(c) THEN Failed(c)
                                            ELSE Succeeded(c, ModelData(c))]
               /\ fta_node' = NodesPersisted(fta_node,
                                  run_fta(fta_node, fta_edge, FtaDefaults)[2])
               /\ UNCHANGED <<rng, rng_replays>>
           ELSE
               /\ thr' = [thr EXCEPT ![t] = Succeeded(c, ModelData(c))]
               /\ UNCHANGED <<rng, rng_replays, fta_node>>
        /\ UNCHANGED <<risk_event, fmea_item, fta_edge, indicator_value, fusion_rule,
                       risk_dataset, tie_break, now, ftaCallVars, self_top_n,
                       mc_last, mc_ref, dsVars, probe, registry, fta_run>>

\* The computation raises (MemoryError, a malformed row): caught by run.
RunComputeRaise(t) ==
    /\ thr[t].pc = "compute"
    /\ thr' = [thr EXCEPT ![t] = [Failed(thr[t]) EXCEPT !.faulted = TRUE]]
    /\ UNCHANGED <<storeVars, ftaCallVars, self_top_n, rng, mcVars, dsVars, probe, registry, fta_run>>

\* The caller invokes run again with the same context, keeping the first
\* ModelResult for comparison.
RunAgain(t) ==
    LET c == thr[t]
    IN  /\ c.pc = "returned"
        /\ c.first = <<>>
        /\ ~c.faulted
        /\ thr' = [thr EXCEPT ![t] =
                      [IdleCall EXCEPT !.pc = "enter", !.model = c.model,
                                       !.mission = c.mission, !.params = c.params,
                                       !.first = <<[success |-> c.success, data |-> c.data]>>]]
        /\ UNCHANGED <<storeVars, ftaCallVars, self_top_n, rng, mcVars, dsVars, probe, registry, fta_run>>

\* The caller is done with the result (or with the exception).
RunDone(t) ==
    /\ thr[t].pc \in {"returned", "escaped"}
    /\ thr' = [thr EXCEPT ![t] = IdleCall]
    /\ UNCHANGED <<storeVars, ftaCallVars, self_top_n, rng, mcVars, dsVars, probe, registry, fta_run>>

MaxEvents == 3
EventSet == {[likelihood |-> 4, severity |-> 5]}

\* The UI adds a risk event between model runs (RiskEventDAO.create).
AddRiskEvent(e) ==
    /\ \A t \in DOMAIN thr : thr[t].pc = "idle"
    /\ Len(risk_event) < MaxEvents
    /\ risk_event' = Append(risk_event, e)
    /\ UNCHANGED <<fmea_item, fta_node, fta_edge, indicator_value, fusion_rule,
                   risk_dataset, tie_break, now, ftaCallVars, runVars, rng, mcVars, dsVars, probe, registry, fta_run>>

\* No _run_fta call is being stepped through.
FtaCallIdle ==
    /\ fta_params = FtaDefaults
    /\ fta_pc = "idle"
    /\ node_dict = <<>>
    /\ base_p_top = Zero
    /\ basic_idx = 0
    /\ orig_prob = NoneP
    /\ p_top_minus = Zero
    /\ results = <<>>
    /\ fta_result = [success |-> FALSE]

SampleValues == (1 :> <<"num", 2>>) @@ (2 :> <<"num", 4>>)
SampleRules ==
    <<[id |-> 1, input_ids |-> <<1, 2>>, method |-> "mean",
       weights_ok |-> TRUE, weights |-> <<>>]>>
SampleTree ==
    [node |-> <<Row("TOP", "OR", NoneP, 0), Row("BASIC", "", Rat(1, 2), 0),
                Row("BASIC", "", Zero, 0)>>,
     edge |-> <<(<<2, 3>>), (<<>>), (<<>>)>>]
SampleEvents ==
    <<[likelihood |-> 3, severity |-> 4], [likelihood |-> 5, severity |-> 5],
      [likelihood |-> 1, severity |-> 2]>>
SampleItems ==
    <<[S |-> 5, O |-> 4, D |-> 3], [S |-> 10, O |-> 10, D |-> 5],
      [S |-> 1, O |-> 1, D |-> 1]>>

\* A mission with records in every table (with or without a dataset
\* snapshot), or a mission without any record.
SampleStore(with_dataset) ==
    /\ risk_event = SubSeq(SampleEvents, 1, 2)
    /\ fmea_item = SubSeq(SampleItems, 1, 2)
    /\ fta_node = SampleTree.node
    /\ fta_edge = SampleTree.edge
    /\ indicator_value = SampleValues
    /\ fusion_rule = SampleRules
    /\ risk_dataset = IF with_dataset
                      THEN <<new_dataset(1, 0, SampleValues, SampleRules)>> ELSE <<>>
    /\ tie_break = "first"
    /\ now = 1

EmptyStore == OtherTablesEmpty /\ fta_node = <<>> /\ fta_edge = <<>>

RunInit ==
    /\ EmptyStore \/ SampleStore(TRUE) \/ SampleStore(FALSE)
    /\ FtaCallIdle
    /\ NoCalls

RunParamSet ==
    {Params("missing", <<>>, "risk_matrix"), Params("notdict", <<>>, "risk_matrix")}
    \cup {Params("dict", n, a) : n \in {<<>>, <<1>>}, a \in {"risk_matrix", "fmea"}}

\* One caller at a time (the UI thread), any model, any context.
RunNext ==
    \/ \E m \in Models, mission \in MissionSet, ps \in RunParamSet :
          /\ ps.analysis_type = "fmea" => m = "sensitivity"
          /\ RunCall(1, m, mission, ps)
    \/ RunEnter(1)
    \/ RunLoad(1)
    \/ RunLoadRaise(1)
    \/ RunCompute(1)
    \/ RunComputeRaise(1)
    \/ RunAgain(1)
    \/ RunDone(1)
    \/ \E e \in EventSet : AddRiskEvent(e)

SpecRun == RunInit /\ [][RunNext]_vars

\* Two threads call run on the registry's shared instances of the three
\* Top-N models, each with its own top_n.
ConcInit ==
    /\ risk_event = SampleEvents
    /\ fmea_item = SampleItems
    /\ fta_node = <<>>
    /\ fta_edge = <<>>
    /\ indicator_value = [i \in IndIds |-> NoValue]
    /\ fusion_rule = <<>>
    /\ risk_dataset = <<>>
    /\ tie_break = "first"
    /\ now = 0
    /\ FtaCallIdle
    /\ thr = [t \in {1, 2} |-> IdleCall]
    /\ self_top_n = [m \in TopNModels |-> DefaultTopN]
    /\ rng = 0
    /\ rng_replays = 0..(RngMod - 1)
    /\ mc_last = <<>>
    /\ mc_ref = <<>>
    /\ gen_count = 0
    /\ probe = <<>>
    /\ registry = ImportedRegistry
    /\ fta_run = <<>>
    /\ ds_call = <<>>

ConcNext ==
    \E t \in {1, 2} :
        \/ \E m \in TopNModels, n \in {<<>>} \cup {<<k>> : k \in 1..MaxTopN} :
              RunCall(t, m, <<1>>, Params("dict", n, "risk_matrix"))
        \/ RunEnter(t)
        \/ RunLoad(t)
        \/ RunCompute(t)
        \/ RunDone(t)

SpecConc == ConcInit /\ [][ConcNext]_vars

-----------------------------------------------------------------------------
(* Monte Carlo runs in one process: the seed step and the sample stream    *)

SeedSet == {-1, 0, 1}

McParams(seed, n, rm, fm, ah) ==
    [n_samples |-> n, random_seed |-> seed, run_risk_matrix |-> rm,
     run_fmea |-> fm, run_ahp |-> ah]

\* The analyses a run enables: risk matrix only, FMEA and AHP, or all three.
McFlagSet == {<<TRUE, FALSE, FALSE>>, <<FALSE, TRUE, TRUE>>, <<TRUE, TRUE, TRUE>>}

\* The mission has events, FMEA items and a snapshot.  The process starts
\* with the generator seeded from system entropy: rng is any state, and
\* rng_replays holds every state a replay could start from.
McInit ==
    /\ SampleStore(TRUE)
    /\ FtaCallIdle
    /\ thr = [t \in {1} |-> IdleCall]
    /\ self_top_n = [m \in TopNModels |-> DefaultTopN]
    /\ rng \in 0..(RngMod - 1)
    /\ rng_replays = 0..(RngMod - 1)
    /\ mc_last = <<>>
    /\ mc_ref = <<>>
    /\ gen_count = 0
    /\ probe = <<>>
    /\ registry = ImportedRegistry
    /\ fta_run = <<>>
    /\ ds_call = <<>>

\* The run on the stored records of mission 1, followed from every state of
\* rng_replays.
McOnStore(params) ==
    mc_replays(params, risk_event, fmea_item, risk_dataset,
               get_latest_by_mission(risk_dataset, 1, tie_break), rng_replays)

\* MonteCarloModel.run with a valid mission_id and the given params.  The
\* run before it may be kept as the reference run if it was seeded.  The
\* replay fields follow the same call from every generator state the
\* process could be in had it started from another entropy.
McRun(params) ==
    /\ \E reps \in {McOnStore(params)} :
          /\ rng' = McOut(reps, rng)[2]
          /\ rng_replays' = {o[2][2] : o \in reps}
          /\ mc_last' = <<[params |-> params,
                           result |-> McOut(reps, rng)[1],
                           prev_seed |-> IF mc_last = <<>> THEN <<>>
                                         ELSE <<mc_last[1].params.random_seed>>,
                           replay_results |-> {o[2][1] : o \in reps}]>>
    /\ \/ mc_ref' = mc_ref
       \/ /\ mc_last # <<>>
          /\ mc_last[1].params.random_seed >= 0
          /\ mc_ref' = <<[params |-> mc_last[1].params, result |-> mc_last[1].result]>>
    /\ UNCHANGED <<storeVars, ftaCallVars, runVars, dsVars, probe, registry, fta_run>>

McNext ==
    \E seed \in SeedSet, n \in {1, MaxSamples}, f \in McFlagSet :
        McRun(McParams(seed, n, f[1], f[2], f[3]))

SpecMC == McInit /\ [][McNext]_vars

-----------------------------------------------------------------------------
(* Dataset generation and the two consumers of the snapshot                *)

MaxDatasets == 2
MaxClock == 1

DsValueSet == {NoValue, <<"num", 2>>}

DsInit ==
    /\ risk_event = <<>>
    /\ fmea_item = <<>>
    /\ fta_node = <<>>
    /\ fta_edge = <<>>
    /\ indicator_value \in [IndIds -> DsValueSet]
    /\ fusion_rule = SampleRules
    /\ risk_dataset = <<>>
    /\ tie_break \in {"first", "last"}
    /\ now = 0
    /\ FtaCallIdle
    /\ thr = [t \in {1} |-> IdleCall]
    /\ self_top_n = [m \in TopNModels |-> DefaultTopN]
    /\ rng = 0
    /\ rng_replays = 0..(RngMod - 1)
    /\ mc_last = <<>>
    /\ mc_ref = <<>>
    /\ gen_count = 0
    /\ probe = <<>>
    /\ registry = ImportedRegistry
    /\ fta_run = <<>>
    /\ ds_call = <<>>

\* An UPDATE of the mission's latest row in place of the INSERT.
dataset_replace_latest(rows, row) ==
    IF rows = <<>> THEN <<row>> ELSE [rows EXCEPT ![Len(rows)] = row]

\* RiskDatasetDAO.create: INSERT INTO risk_dataset.
dataset_create(rows, row) == Append(rows, row)

\* Data acquisition stores, replaces or removes the value of an indicator.
SetIndicatorValue(i, v) ==
    /\ indicator_value[i] # v
    /\ indicator_value' = [indicator_value EXCEPT ![i] = v]
    /\ ds_call' = <<>>
    /\ UNCHANGED <<risk_event, fmea_item, fta_node, fta_edge, fusion_rule, risk_dataset,
                   tie_break, now, ftaCallVars, runVars, rng, mcVars, gen_count, probe, registry, fta_run>>

\* A second passes.
Tick ==
    /\ now < MaxClock
    /\ now' = now + 1
    /\ ds_call' = <<>>
    /\ UNCHANGED <<risk_event, fmea_item, fta_node, fta_edge, indicator_value, fusion_rule,
                   risk_dataset, tie_break, ftaCallVars, runVars, rng, mcVars, gen_count, probe, registry, fta_run>>

\* RiskIdentificationPipeline.generate_risk_dataset(mission 1).
GenerateRiskDataset ==
    /\ Len(risk_dataset) < MaxDatasets
    /\ risk_dataset' = dataset_create(risk_dataset,
                           new_dataset(1, now, indicator_value, fusion_rule))
    /\ gen_count' = gen_count + 1
    /\ ds_call' = <<>>
    /\ UNCHANGED <<risk_event, fmea_item, fta_node, fta_edge, indicator_value, fusion_rule,
                   tie_break, now, ftaCallVars, runVars, rng, mcVars, probe, registry, fta_run>>

\* Whether the mission has a snapshot the consumers accept.
HasSnapshot ==
    HasDatasetJson(risk_dataset, get_latest_by_mission(risk_dataset, 1, tie_break))

\* AHPImprovedModel._run_ahp(mission 1): the evaluation records whether a
\* snapshot existed, the live values, the indicator data that entered the
\* score, the score, and the correction factor and corrected weight of every
\* indicator result.
AhpEvaluate(use_dataset) ==
    /\ LET result == run_ahp(use_dataset, risk_dataset,
                             get_latest_by_mission(risk_dataset, 1, tie_break),
                             indicator_value)
       IN  ds_call' =
              <<[model |-> "ahp_improved", use_dataset |-> use_dataset,
                 had_snapshot |-> HasSnapshot, live |-> indicator_value,
                 used |-> result.indicator_results,
                 score |-> result.total_score,
                 c |-> correction_factor(result.indicator_results),
                 w_prime |-> ahp_corrected_weights(result.indicator_results)]>>
    /\ UNCHANGED <<storeVars, ftaCallVars, runVars, rng, mcVars, gen_count, probe, registry, fta_run>>

\* The indicator rows run_ahp_score samples: the snapshot's, or none.
mc_ahp_indicators(rows, idx) ==
    IF ~HasDatasetJson(rows, idx) \/ rows[idx].dataset_json.text # "json" THEN <<>>
    ELSE [k \in 1..Len(rows[idx].dataset_json.indicators) |->
             ParsedRow(rows[idx].dataset_json.indicators[k])]
         \o [k \in 1..Len(rows[idx].dataset_json.fused_indicators) |->
                ParsedRow(rows[idx].dataset_json.fused_indicators[k])]

\* MonteCarloModel.run(mission 1) with only run_ahp enabled (one sample,
\* the default seed), recording the indicators, the nominal score and the
\* corrected weights behind it.
McAhpEvaluate ==
    /\ \E reps \in {McOnStore(McParams(42, 1, FALSE, FALSE, TRUE))} :
          LET out == McOut(reps, rng)
              inds == mc_ahp_indicators(risk_dataset,
                          get_latest_by_mission(risk_dataset, 1, tie_break))
          IN  /\ ds_call' =
                    <<[model |-> "monte_carlo", use_dataset |-> TRUE,
                       had_snapshot |-> HasSnapshot, live |-> indicator_value,
                       used |-> inds,
                       score |-> out[1].ahp[1].nominal_score,
                       w_prime |-> mc_corrected_weights(inds)]>>
              /\ rng' = out[2]
              /\ rng_replays' = {o[2][2] : o \in reps}
    /\ UNCHANGED <<storeVars, ftaCallVars, runVars, mc_last, mc_ref, gen_count, probe, registry, fta_run>>

DsNext ==
    \/ \E i \in IndIds, v \in DsValueSet : SetIndicatorValue(i, v)
    \/ Tick
    \/ GenerateRiskDataset
    \/ \E u \in BOOLEAN : AhpEvaluate(u)
    \/ McAhpEvaluate

SpecDS == DsInit /\ [][DsNext]_vars

-----------------------------------------------------------------------------
(* The AHP model on a stored snapshot of any kind                          *)

\* A generated snapshot row, the same row with a payload json.loads rejects,
\* and one with an empty payload.
ValidSnapshot == new_dataset(1, 0, SampleValues, SampleRules)
CorruptSnapshot == [ValidSnapshot EXCEPT !.dataset_json.text = "garbage"]
EmptySnapshot == [ValidSnapshot EXCEPT !.dataset_json.text = "empty"]

\* A snapshot of a mission without fusion rules whose indicators follow
\* normal(0, 0.01): the values 2 and 4 lie 200 and 400 sigmas above mu.
FarSnapshot ==
    [ValidSnapshot EXCEPT
        !.dataset_json.indicators =
            [k \in 1..Len(@) |-> [@[k] EXCEPT !.mu = Zero, !.sigma = Rat(1, 100)]],
        !.dataset_json.fused_indicators = <<>>]

SnapInit ==
    /\ risk_event = <<>>
    /\ fmea_item = <<>>
    /\ fta_node = <<>>
    /\ fta_edge = <<>>
    /\ indicator_value \in [IndIds -> ValueSet]
    /\ fusion_rule = SampleRules
    /\ risk_dataset \in {<<>>, <<ValidSnapshot>>, <<CorruptSnapshot>>, <<EmptySnapshot>>,
                        <<FarSnapshot>>}
    /\ tie_break \in {"first", "last"}
    /\ now = 0
    /\ FtaCallIdle
    /\ thr = [t \in {1} |-> IdleCall]
    /\ self_top_n = [m \in TopNModels |-> DefaultTopN]
    /\ rng = 0
    /\ rng_replays = 0..(RngMod - 1)
    /\ mc_last = <<>>
    /\ mc_ref = <<>>
    /\ gen_count = 0
    /\ probe = <<>>
    /\ registry = ImportedRegistry
    /\ fta_run = <<>>
    /\ ds_call = <<>>

SnapNext ==
    \/ \E i \in IndIds, v \in ValueSet : SetIndicatorValue(i, v)
    \/ \E u \in BOOLEAN : AhpEvaluate(u)
    \/ McAhpEvaluate

SpecSnap == SnapInit /\ [][SnapNext]_vars

-----------------------------------------------------------------------------
(* Runs on empty or structurally incomplete input *)

\* Fault trees without a usable structure: no node, a single basic event
\* without edges, nodes but no TOP node, a TOP node without children, and a
\* TOP node over an intermediate gate without children beside a basic event
\* no edge reaches.
IncompleteTreeSet ==
    { [node |-> <<>>, edge |-> <<>>] }
    \cup
    { [node |-> <<Row("BASIC", "", p, 0)>>, edge |-> <<(<<>>)>>] : p \in ProbSet }
    \cup
    { [node |-> <<Row("INTERMEDIATE", "OR", NoneP, 0), Row("BASIC", "", p2, 0)>>,
       edge |-> <<(<<2>>), (<<>>)>>] : p2 \in ProbSet }
    \cup
    { [node |-> <<Row("TOP", g, NoneP, s)>>, edge |-> <<(<<>>)>>] :
          g \in GateSet, s \in {0, 1, 3, 5} }
    \cup
    { [node |-> <<Row("TOP", "AND", NoneP, s), Row("INTERMEDIATE", g, NoneP, 0),
                  Row("BASIC", "", p3, 0)>>,
       edge |-> <<(<<2>>), (<<>>), (<<>>)>>] :
          g \in GateSet, s \in {0, 5}, p3 \in ProbSet }

\* The mission exists and has no risk event, no FMEA item and an incomplete
\* fault tree.
EmptyInit ==
    /\ OtherTablesEmpty
    /\ \E tree \in IncompleteTreeSet : fta_node = tree.node /\ fta_edge = tree.edge
    /\ FtaCallIdle
    /\ NoCalls

EmptyModels == {"risk_matrix", "fmea", "sensitivity", "fta"}

\* Calls of run with the mission's id and a params dict.
EmptyNext ==
    \/ \E m \in EmptyModels, n \in {<<>>, <<1>>}, a \in {"risk_matrix", "fmea"} :
          /\ a = "fmea" => m = "sensitivity"
          /\ RunCall(1, m, <<1>>, Params("dict", n, a))
    \/ RunEnter(1)
    \/ RunLoad(1)
    \/ RunCompute(1)
    \/ RunDone(1)

SpecEmpty == EmptyInit /\ [][EmptyNext]_vars

-----------------------------------------------------------------------------
(* Level classification as a function of the ratings *)

\* Ratings of a risk event (page_data.py spin boxes, data_acquisition.py
\* clamps) and of an FMEA item.
LevelMax == 5
RatingMax == 10

LevelRank(l) == CASE l = "Low" -> 1 [] l = "Medium" -> 2 [] l = "High" -> 3 [] OTHER -> 4

\* No store, no call, no evaluation yet.
LevelInit ==
    /\ EmptyStore
    /\ FtaCallIdle
    /\ NoCalls

\* R = L * S classified by the Risk Matrix (risk_matrix.py 110-111) and by
\* the FTA model (fta.py 224-225).
ClassifyScore(L, S) ==
    /\ probe' = [fn |-> "from_score", L |-> L, S |-> S, score |-> L * S,
                 level |-> from_score(L * S), fta_level |-> get_risk_level(L * S)]
    /\ UNCHANGED <<storeVars, ftaCallVars, runVars, rng, mcVars, dsVars, registry, fta_run>>

\* RPN = S * O * D classified by FMEA (fmea.py 107-108).
ClassifyRpn(S, O, D) ==
    /\ probe' = [fn |-> "from_rpn", S |-> S, O |-> O, D |-> D, score |-> S * O * D,
                 level |-> from_rpn(S * O * D)]
    /\ UNCHANGED <<storeVars, ftaCallVars, runVars, rng, mcVars, dsVars, registry, fta_run>>

LevelNext ==
    \/ \E L \in 1..LevelMax, S \in 1..LevelMax : ClassifyScore(L, S)
    \/ \E S \in 1..RatingMax, O \in 1..RatingMax, D \in 1..RatingMax : ClassifyRpn(S, O, D)

SpecLevel == LevelInit /\ [][LevelNext]_vars

-----------------------------------------------------------------------------
(* Risk Matrix, FMEA and OAT sensitivity over lists of rated records *)

MaxListLen == 3

\* Risk events by (likelihood, severity), both ends of the 1..5 scale among
\* them, and FMEA items by (S, O, D) with both ends of the 1..10 scale.
EventPool == {[likelihood |-> L, severity |-> S] : L \in {1, 2, 3, 5}, S \in {4, 5}}
ItemPool ==
    {[S |-> 7, O |-> O, D |-> D] : O \in {1, 5, 10}, D \in {1, 10}}
    \cup {[S |-> 10, O |-> 10, D |-> 10]}

ListsOf(pool) == UNION {[1..n -> pool] : n \in 1..MaxListLen}

ExampleEvents ==
    <<[likelihood |-> 3, severity |-> 5], [likelihood |-> 2, severity |-> 5],
      [likelihood |-> 3, severity |-> 4]>>

\* The mission has risk events or FMEA items, and no other record.
ScoreInit ==
    /\ \/ risk_event \in ListsOf(EventPool) /\ fmea_item = <<>>
       \/ risk_event = <<>> /\ fmea_item \in ListsOf(ItemPool)
    /\ fta_node = <<>>
    /\ fta_edge = <<>>
    /\ indicator_value = [i \in IndIds |-> NoValue]
    /\ fusion_rule = <<>>
    /\ risk_dataset = <<>>
    /\ tie_break = "first"
    /\ now = 0
    /\ FtaCallIdle
    /\ NoCalls

\* Runs of the model that reads the table the mission has rows in.
ScoreNext ==
    \/ \E m \in TopNModels, n \in {<<>>, <<1>>, <<2>>} :
          /\ m = "risk_matrix" => risk_event # <<>>
          /\ m = "fmea" => fmea_item # <<>>
          /\ RunCall(1, m, <<1>>,
                     Params("dict", n, IF risk_event # <<>> THEN "risk_matrix" ELSE "fmea"))
    \/ RunEnter(1)
    \/ RunLoad(1)
    \/ RunCompute(1)
    \/ RunDone(1)

SpecScore == ScoreInit /\ [][ScoreNext]_vars

-----------------------------------------------------------------------------
(* Probability propagation as a function of the graph *)

StoredProbSet == {Zero, Rat(1, 2), One}
AnyGateSet == {"AND", "OR", ""}

\* Acyclic graphs rooted at node 1: a gate over two basic events; two gates
\* sharing a basic event beside a gate without children; a single basic
\* event.
PropTreeSet ==
    { [node |-> <<Row("TOP", g, NoneP, 0), Row("BASIC", "", p2, 0), Row("BASIC", "", p3, 0)>>,
       edge |-> <<(<<2, 3>>), (<<>>), (<<>>)>>] :
          g \in AnyGateSet, p2 \in ProbSet, p3 \in ProbSet }
    \cup
    { [node |-> <<Row("TOP", g1, NoneP, 0), Row("INTERMEDIATE", g2, NoneP, 0),
                  Row("INTERMEDIATE", g3, NoneP, 0), Row("BASIC", "", p4, 0),
                  Row("BASIC", "", p5, 0), Row("INTERMEDIATE", "AND", NoneP, 0)>>,
       edge |-> <<(<<2, 3>>), (<<4, 5>>), (<<5, 6>>), (<<>>), (<<>>), (<<>>)>>] :
          g1 \in AnyGateSet, g2 \in AnyGateSet, g3 \in AnyGateSet,
          p4 \in StoredProbSet, p5 \in StoredProbSet }
    \cup
    { [node |-> <<Row("BASIC", "", p, 0)>>, edge |-> <<(<<>>)>>] : p \in ProbSet }

\* The nodes reachable from root along the edges, root included.
RECURSIVE ReachableFrom(_, _)
ReachableFrom(cm, seen) ==
    LET more == seen \cup UNION {{cm[i][k] : k \in DOMAIN cm[i]} : i \in seen}
    IN  IF more = seen THEN seen ELSE ReachableFrom(cm, more)

PropInit ==
    /\ EmptyStore
    /\ FtaCallIdle
    /\ NoCalls

\* _calculate_probabilities(root, node_dict, children_map) on a graph.
Propagate(tree, root) ==
    /\ probe' = [fn |-> "calculate_probabilities", node |-> tree.node, edge |-> tree.edge,
                 root |-> root,
                 result |-> calculate_probabilities(root, tree.node, tree.edge),
                 trace |-> calc_node_prob(root, tree.node, tree.edge, <<>>, <<>>)[3]]
    /\ UNCHANGED <<storeVars, ftaCallVars, runVars, rng, mcVars, dsVars, registry, fta_run>>

PropNext == \E tree \in PropTreeSet : Propagate(tree, 1)

SpecProp == PropInit /\ [][PropNext]_vars

-----------------------------------------------------------------------------
(* The fusion pipeline as functions of the stored rows *)

MaxWeights == 3

\* weights_json of a rule: a list of up to MaxWeights numbers.
WeightLists == UNION {[1..n -> {Rat(1, 4), Rat(3, 4)}] : n \in 0..MaxWeights}

\* weighted_sum rules over the two indicators; weights_ok is whether
\* weights_json parses to a list.
FuseRuleSet ==
    {[id |-> 1, input_ids |-> ids, method |-> "weighted_sum", weights_ok |-> ok,
      weights |-> ws] :
        ids \in {<<1>>, <<1, 2>>, <<2, 1>>}, ok \in BOOLEAN, ws \in WeightLists}

\* _get_mu_sigma for dist_type 'discrete' (lines 308-315) with values and
\* probs given in dist_params: mu and the variance var, sigma being
\* math.sqrt(max(0, var)).
get_mu_sigma_discrete(values, probs) ==
    LET ps == IF Len(probs) # Len(values)
              THEN [k \in 1..Len(values) |-> RDiv(One, Rat(Len(values), 1))]
              ELSE probs
        mu == RSum([k \in 1..Len(values) |-> RMul(values[k], ps[k])])
    IN  [mu |-> mu,
         var |-> RSum([k \in 1..Len(values) |->
                          RMul(ps[k], RMul(RSub(values[k], mu), RSub(values[k], mu)))])]

\* dist_params of a discrete indicator: one or two values, up to MaxWeights
\* probs.
DiscreteValueLists == UNION {[1..n -> {Zero, Rat(2, 1), Rat(4, 1)}] : n \in 1..2}
ProbLists == UNION {[1..n -> {Rat(1, 4), Rat(1, 2), One}] : n \in 0..MaxWeights}

PipeInit ==
    /\ EmptyStore
    /\ FtaCallIdle
    /\ NoCalls

\* apply_fusion_rule(rule, mission) on the mission's indicator values.
ApplyFusionRule(rule, vals) ==
    /\ probe' = [fn |-> "apply_fusion_rule", rule |-> rule, vals |-> vals,
                 out |-> apply_fusion_rule(rule, vals)]
    /\ UNCHANGED <<storeVars, ftaCallVars, runVars, rng, mcVars, dsVars, registry, fta_run>>

\* _get_mu_sigma('discrete', {values, probs}, x).
GetMuSigma(values, probs) ==
    /\ probe' = [fn |-> "get_mu_sigma", values |-> values, probs |-> probs,
                 out |-> get_mu_sigma_discrete(values, probs)]
    /\ UNCHANGED <<storeVars, ftaCallVars, runVars, rng, mcVars, dsVars, registry, fta_run>>

PipeNext ==
    \/ \E rule \in FuseRuleSet, vals \in [IndIds -> ValueSet] : ApplyFusionRule(rule, vals)
    \/ \E values \in DiscreteValueLists, probs \in ProbLists : GetMuSigma(values, probs)

SpecPipe == PipeInit /\ [][PipeNext]_vars

-----------------------------------------------------------------------------
(* The registry under register, unregister and construction *)

MaxObj == 2

CategorySet == {"risk_assessment", "uncertainty", "quantitative", "composite", "general"}

\* Models a caller registers: further instances of a built-in class and
\* instances of classes of its own.
RegModelSet ==
    {[model_id |-> "risk_matrix", category |-> "risk_assessment", obj |-> o] : o \in 1..MaxObj}
    \cup {[model_id |-> "custom", category |-> c, obj |-> o] :
             c \in {"general", "uncertainty"}, o \in 1..MaxObj}

RegIdSet == {"risk_matrix", "fta", "custom", "unknown"}

\* The interpreter has loaded app.models.base only: no ModelRegistry object
\* exists yet and no model class has been defined.
RegInit ==
    /\ EmptyStore
    /\ FtaCallIdle
    /\ thr = [t \in {1} |-> IdleCall]
    /\ self_top_n = [m \in TopNModels |-> DefaultTopN]
    /\ rng = 0
    /\ rng_replays = 0..(RngMod - 1)
    /\ mc_last = <<>>
    /\ mc_ref = <<>>
    /\ gen_count = 0
    /\ ds_call = <<>>
    /\ probe = <<>>
    /\ registry = FreshRegistry
    /\ fta_run = <<>>

RegFrame == UNCHANGED <<storeVars, ftaCallVars, runVars, rng, mcVars, dsVars, probe, fta_run>>

\* import app.models: base.py line 235 constructs the registry and each
\* @register_model decorator registers an instance of its class.
ImportModels ==
    /\ ~registry.imported
    /\ registry' = [registry_new(registry) EXCEPT
                       !.models = RegisterAll(registry_new(registry).models, BuiltinModels),
                       !.imported = TRUE, !.op = [op |-> "import"]]
    /\ RegFrame

\* ModelRegistry()
Construct ==
    /\ registry' = [registry_new(registry) EXCEPT !.op = [op |-> "new"]]
    /\ RegFrame

\* ModelRegistry().register(model)
Register(model) ==
    /\ registry' = [registry_new(registry) EXCEPT
                       !.models = registry_register(registry_new(registry).models, model),
                       !.op = [op |-> "register", model |-> model]]
    /\ RegFrame

\* ModelRegistry().unregister(model_id)
Unregister(model_id) ==
    /\ registry' = [registry_new(registry) EXCEPT
                       !.models = registry_unregister(registry_new(registry).models, model_id),
                       !.op = [op |-> "unregister", model_id |-> model_id]]
    /\ RegFrame

RegNext ==
    \/ ImportModels
    \/ Construct
    \/ \E model \in RegModelSet : Register(model)
    \/ \E model_id \in RegIdSet : Unregister(model_id)

SpecReg == RegInit /\ [][RegNext]_vars

-----------------------------------------------------------------------------
(* Parameter validation *)

\* The Python values a params dict can hold: t is the value's class, num its
\* numeric value (True is 1 and False is 0), str its text.
IntV(n) == [t |-> "int", num |-> Rat(n, 1), str |-> ""]
FloatV(n, d) == [t |-> "float", num |-> Rat(n, d), str |-> ""]
BoolV(b) == [t |-> "bool", num |-> IF b THEN One ELSE Zero, str |-> ""]
StrV(s) == [t |-> "str", num |-> Zero, str |-> s]

\* ParamSpec (base.py 20-30); has_min and has_max are `min_value is not None`
\* and `max_value is not None`.
ParamSpec(name, param_type, default, has_min, min_value, has_max, max_value, enum_values) ==
    [name |-> name, param_type |-> param_type, default |-> default,
     has_min |-> has_min, min_value |-> min_value,
     has_max |-> has_max, max_value |-> max_value, enum_values |-> enum_values]

BoolSpec(name, default) ==
    ParamSpec(name, "bool", BoolV(default), FALSE, Zero, FALSE, Zero, {})

\* param_schema() of the registered models.
param_schema(model_id) ==
    CASE model_id = "monte_carlo" ->
           <<ParamSpec("n_samples", "int", IntV(2000), TRUE, Rat(100, 1), TRUE, Rat(100000, 1), {}),
             ParamSpec("random_seed", "int", IntV(42), TRUE, Rat(-1, 1), TRUE, Rat(999999, 1), {}),
             BoolSpec("run_risk_matrix", TRUE),
             BoolSpec("run_fmea", TRUE),
             BoolSpec("run_ahp", TRUE)>>
      [] model_id = "ahp_improved" ->
           <<BoolSpec("use_dataset", TRUE),
             ParamSpec("default_sigma_ratio", "float", FloatV(1, 10), TRUE, Rat(1, 100), TRUE, One, {}),
             ParamSpec("top_n", "int", IntV(10), TRUE, One, TRUE, Rat(50, 1), {}),
             ParamSpec("risk_direction", "enum", StrV("higher_worse"), FALSE, Zero, FALSE, Zero,
                       {"higher_worse", "lower_worse", "auto"})>>
      [] model_id = "sensitivity" ->
           <<ParamSpec("top_n", "int", IntV(10), TRUE, One, TRUE, Rat(50, 1), {}),
             ParamSpec("analysis_type", "enum", StrV("risk_matrix"), FALSE, Zero, FALSE, Zero,
                       {"risk_matrix", "fmea"})>>
      [] model_id = "fta" ->
           <<ParamSpec("default_severity", "int", IntV(3), TRUE, One, TRUE, Rat(5, 1), {}),
             ParamSpec("sensitivity_delta", "float", FloatV(1, 10), TRUE, Rat(1, 100), TRUE, Rat(1, 2), {}),
             ParamSpec("top_n_sensitivity", "int", IntV(10), TRUE, One, TRUE, Rat(50, 1), {})>>
      [] OTHER ->
           <<ParamSpec("top_n", "int", IntV(10), TRUE, One, TRUE, Rat(50, 1), {})>>

\* isinstance(value, int) and isinstance(value, (int, float)): bool is a
\* subclass of int.
IsInstanceInt(value) == value.t \in {"int", "bool"}
IsInstanceNumber(value) == value.t \in {"int", "bool", "float"}

\* The range checks shared by the INT and FLOAT branches.
range_check(spec, value) ==
    IF spec.has_min /\ RLt(value.num, spec.min_value) THEN "below_min"
    ELSE IF spec.has_max /\ RLt(spec.max_value, value.num) THEN "above_max"
    ELSE ""

\* The body of validate_params's loop for one spec: the message it returns
\* with False, or "" when the loop goes on.
validate_one(spec, params) ==
    IF spec.name \notin DOMAIN params THEN ""
    ELSE LET value == params[spec.name]
         IN  CASE spec.param_type = "int" ->
                    IF ~IsInstanceInt(value) THEN "must_be_int"
                    ELSE range_check(spec, value)
               [] spec.param_type = "float" ->
                    IF ~IsInstanceNumber(value) THEN "must_be_number"
                    ELSE range_check(spec, value)
               [] spec.param_type = "enum" ->
                    IF value.t # "str" \/ value.str \notin spec.enum_values
                    THEN "not_in_enum" ELSE ""
               [] OTHER -> ""

RECURSIVE validate_params(_, _)
validate_params(schema, params) ==
    IF schema = <<>> THEN [valid |-> TRUE, msg |-> ""]
    ELSE LET msg == validate_one(Head(schema), params)
         IN  IF msg # "" THEN [valid |-> FALSE, msg |-> msg]
             ELSE validate_params(Tail(schema), params)

get_default_params(schema) ==
    [name \in {schema[k].name : k \in 1..Len(schema)} |->
        schema[CHOOSE k \in 1..Len(schema) : schema[k].name = name].default]


MaxParams == 2

SchemaModelSet == {"monte_carlo", "ahp_improved", "sensitivity", "fta", "risk_matrix"}

\* Values around every bound of the schemas, of every class.
ParamValueSet ==
    {IntV(n) : n \in {-2, -1, 0, 1, 5, 6, 50, 51, 99, 100, 100000, 100001}}
    \cup {FloatV(1, 200), FloatV(1, 100), FloatV(1, 2), FloatV(3, 4), FloatV(3, 2)}
    \cup {BoolV(b) : b \in BOOLEAN}
    \cup {StrV(s) : s \in {"higher_worse", "fmea", "yes", ""}}

SchemaNames(schema) == {schema[k].name : k \in 1..Len(schema)}

\* params dicts with up to MaxParams of the schema's names.
ParamDicts(schema) ==
    UNION {[names -> ParamValueSet] :
             names \in {ns \in SUBSET SchemaNames(schema) : Cardinality(ns) <= MaxParams}}

ParamInit ==
    /\ EmptyStore
    /\ FtaCallIdle
    /\ NoCalls

\* model.validate_params(params); the call reads nothing but its arguments,
\* so a behaviour holds one call.
ValidateParams(model_id, params) ==
    /\ probe = <<>>
    /\ probe' = [fn |-> "validate_params", model_id |-> model_id, params |-> params,
                 out |-> validate_params(param_schema(model_id), params)]
    /\ UNCHANGED <<storeVars, ftaCallVars, runVars, rng, mcVars, dsVars, registry, fta_run>>

\* model.validate_params(model.get_default_params()).
ValidateDefaults(model_id) ==
    /\ probe = <<>>
    /\ probe' = [fn |-> "validate_defaults", model_id |-> model_id,
                 params |-> get_default_params(param_schema(model_id)),
                 out |-> validate_params(param_schema(model_id),
                                         get_default_params(param_schema(model_id)))]
    /\ UNCHANGED <<storeVars, ftaCallVars, runVars, rng, mcVars, dsVars, registry, fta_run>>

ParamNext ==
    \/ \E model_id \in SchemaModelSet :
         \E params \in ParamDicts(param_schema(model_id)) : ValidateParams(model_id, params)
    \/ \E model_id \in SchemaModelSet : ValidateDefaults(model_id)

SpecParam == ParamInit /\ [][ParamNext]_vars

-----------------------------------------------------------------------------
(* Discrete resampling in the Monte Carlo loops *)

\* Ratings of an FMEA item: the ends of 1..RatingMax and a value inside.
RatingPool == {1, 5, RatingMax}

\* A process whose generator is in any state.
ResampleInit ==
    /\ EmptyStore
    /\ FtaCallIdle
    /\ thr = [t \in {1} |-> IdleCall]
    /\ self_top_n = [m \in TopNModels |-> DefaultTopN]
    /\ rng \in 0..(RngMod - 1)
    /\ rng_replays = 0..(RngMod - 1)
    /\ mc_last = <<>>
    /\ mc_ref = <<>>
    /\ gen_count = 0
    /\ ds_call = <<>>
    /\ probe = <<>>
    /\ registry = ImportedRegistry
    /\ fta_run = <<>>

ResampleFrame == UNCHANGED <<storeVars, ftaCallVars, runVars, mcVars, dsVars, registry, fta_run>>

\* One call _sample_discrete(nominal, min_val, max_val): one draw.
SampleDiscrete(nominal, min_val, max_val) ==
    /\ probe' = [fn |-> "sample_discrete", nominal |-> nominal,
                 min_val |-> min_val, max_val |-> max_val,
                 cands |-> discrete_candidates(nominal, min_val, max_val),
                 probs |-> discrete_probs(nominal, min_val, max_val),
                 out |-> sample_discrete(nominal, min_val, max_val, NextRng(rng))]
    /\ rng' = NextRng(rng)
    /\ ResampleFrame

\* The sample loop of run_risk_matrix (lines 328-336) over one event.
SampleRiskMatrix(event, n_samples) ==
    /\ probe' = [fn |-> "run_risk_matrix", event |-> event, n_samples |-> n_samples,
                 l |-> [k \in 1..n_samples |->
                          sample_discrete(event.likelihood, 1, 5, RngAt(rng, 2 * (k - 1) + 1))],
                 s |-> [k \in 1..n_samples |->
                          sample_discrete(event.severity, 1, 5, RngAt(rng, 2 * (k - 1) + 2))],
                 rows |-> McRmSamples(<<event>>, n_samples, rng)]
    /\ rng' = RngAt(rng, 2 * n_samples)
    /\ ResampleFrame

\* The sample loop of run_fmea (lines 397-406) over one item.
SampleFmea(item, n_samples) ==
    /\ probe' = [fn |-> "run_fmea", item |-> item, n_samples |-> n_samples,
                 s |-> [k \in 1..n_samples |->
                          sample_discrete(item.S, 1, 10, RngAt(rng, 3 * (k - 1) + 1))],
                 o |-> [k \in 1..n_samples |->
                          sample_discrete(item.O, 1, 10, RngAt(rng, 3 * (k - 1) + 2))],
                 d |-> [k \in 1..n_samples |->
                          sample_discrete(item.D, 1, 10, RngAt(rng, 3 * (k - 1) + 3))],
                 rows |-> McFmeaSamples(<<item>>, n_samples, rng)]
    /\ rng' = RngAt(rng, 3 * n_samples)
    /\ ResampleFrame

ResampleNext ==
    \/ \E mm \in {<<1, LevelMax>>, <<1, RatingMax>>} :
         \E nominal \in mm[1]..mm[2] : SampleDiscrete(nominal, mm[1], mm[2])
    \/ \E l \in 1..LevelMax, s \in 1..LevelMax, n \in 1..MaxSamples :
         SampleRiskMatrix([likelihood |-> l, severity |-> s], n)
    \/ \E s \in RatingPool, o \in RatingPool, d \in RatingPool, n \in 1..MaxSamples :
         SampleFmea([S |-> s, O |-> o, D |-> d], n)

SpecResample == ResampleInit /\ [][ResampleNext]_vars

-----------------------------------------------------------------------------
(* Two FTA runs on one mission, interleaved statement by statement *)

FtaRunIds == {1, 2}

\* The locals of a call of _run_fta that has not started.
IdleFtaRun ==
    [pc |-> "idle", params |-> [sensitivity_delta |-> Rat(1, 10), top_n_sensitivity |-> 1,
                                default_severity |-> 3],
     node_dict |-> <<>>, base_p_top |-> Zero, basic_idx |-> 0, orig_prob |-> NoneP,
     p_top_minus |-> Zero, results |-> <<>>, result |-> FailedResult]

\* The node objects of a run in progress handed to the next caller in place
\* of new objects.
get_by_mission_shared(store, runs) ==
    IF \E t \in DOMAIN runs : runs[t].node_dict # <<>>
    THEN runs[CHOOSE t \in DOMAIN runs : runs[t].node_dict # <<>>].node_dict
    ELSE store

\* FTANodeDAO.get_by_mission: every call builds new FTANode objects from the
\* rows of table fta_node.
get_by_mission(store, runs) == store

\* Trees with a TOP node over two basic events.
TwoBasicTrees ==
    {tree \in TreeSet : Len(tree.node) = 3 /\ tree.node[2].node_type = "BASIC"
                        /\ tree.node[1].severity = 0}

Fta2Init ==
    /\ \E tree \in TwoBasicTrees : fta_node = tree.node /\ fta_edge = tree.edge
    /\ fta_params = [sensitivity_delta |-> Rat(1, 10), top_n_sensitivity |-> 1,
                     default_severity |-> 3]
    /\ fta_pc = "idle"
    /\ node_dict = <<>>
    /\ base_p_top = Zero
    /\ basic_idx = 0
    /\ orig_prob = NoneP
    /\ p_top_minus = Zero
    /\ results = <<>>
    /\ fta_result = [success |-> FALSE]
    /\ OtherTablesEmpty
    /\ thr = [t \in {1} |-> IdleCall]
    /\ self_top_n = [m \in TopNModels |-> DefaultTopN]
    /\ rng = 0
    /\ rng_replays = 0..(RngMod - 1)
    /\ mc_last = <<>>
    /\ mc_ref = <<>>
    /\ gen_count = 0
    /\ ds_call = <<>>
    /\ probe = <<>>
    /\ registry = ImportedRegistry
    /\ fta_run = [t \in FtaRunIds |-> IdleFtaRun]

Fta2Frame == UNCHANGED <<storeVars, ftaCallVars, runVars, rng, mcVars, dsVars, probe, registry>>

\* _run_fta lines 180-239 and _sensitivity_analysis lines 358-365 of run t.
Fta2Start(t, params) ==
    /\ fta_run[t].pc = "idle"
    /\ LET nd == get_by_mission(fta_node, fta_run)
           top_id == get_top_node(fta_node)
           p_top == GetProb(calculate_probabilities(top_id, nd, fta_edge), top_id)
           l_level == probability_to_likelihood(p_top)
           s_level == IF nd[top_id].severity # 0 THEN nd[top_id].severity
                      ELSE params.default_severity
       IN  fta_run' = [fta_run EXCEPT ![t] =
               [@ EXCEPT !.params = params, !.node_dict = nd, !.base_p_top = p_top,
                         !.basic_idx = 1, !.pc = "minus",
                         !.result = [success |-> TRUE, top_event_name |-> "top",
                                     top_event_probability |-> p_top,
                                     likelihood_level |-> l_level,
                                     severity_level |-> s_level,
                                     risk_score |-> l_level * s_level,
                                     risk_level |-> get_risk_level(l_level * s_level),
                                     sensitivity |-> <<>>]]]
    /\ Fta2Frame

\* Lines 370-376 of run t.
Fta2Minus(t) ==
    /\ fta_run[t].pc = "minus"
    /\ LET c == fta_run[t]
           b == basic_nodes(c.node_dict)[c.basic_idx]
           orig == OrigProbOf(c.node_dict[b].probability)
           nd == [c.node_dict EXCEPT ![b].probability =
                      minus_prob(orig, c.params.sensitivity_delta)]
           top_id == get_top_node(fta_node)
       IN  fta_run' = [fta_run EXCEPT ![t] =
               [@ EXCEPT !.orig_prob = orig, !.node_dict = nd, !.pc = "plus",
                         !.p_top_minus =
                             GetProb(calculate_probabilities(top_id, nd, fta_edge), top_id)]]
    /\ Fta2Frame

\* Lines 378-397 of run t.
Fta2Plus(t) ==
    /\ fta_run[t].pc = "plus"
    /\ LET c == fta_run[t]
           b == basic_nodes(c.node_dict)[c.basic_idx]
           nd == [c.node_dict EXCEPT ![b].probability =
                      plus_prob(c.orig_prob, c.params.sensitivity_delta)]
           top_id == get_top_node(fta_node)
           p_top_plus == GetProb(calculate_probabilities(top_id, nd, fta_edge), top_id)
           impact == RMax(RAbs(RSub(c.p_top_minus, c.base_p_top)),
                          RAbs(RSub(p_top_plus, c.base_p_top)))
       IN  fta_run' = [fta_run EXCEPT ![t] =
               [@ EXCEPT !.node_dict = [nd EXCEPT ![b].probability = RestoredProb(c.orig_prob)],
                         !.results = Append(c.results,
                             [node_id |-> b, base_probability |-> c.orig_prob,
                              minus_prob |-> c.p_top_minus, plus_prob |-> p_top_plus,
                              impact_score |-> impact]),
                         !.basic_idx = c.basic_idx + 1,
                         !.pc = IF c.basic_idx + 1 > Len(basic_nodes(c.node_dict))
                                THEN "finish" ELSE "minus"]]
    /\ Fta2Frame

\* Lines 399-401 and 248-257 of run t: rank, truncate, return; the node
\* objects of the run are dropped.
Fta2Finish(t) ==
    /\ fta_run[t].pc = "finish"
    /\ fta_run' = [fta_run EXCEPT ![t] =
           [@ EXCEPT !.result.sensitivity =
                         Take(SortByImpact(fta_run[t].results),
                              fta_run[t].params.top_n_sensitivity),
                     !.node_dict = <<>>,
                     !.pc = "done"]]
    /\ Fta2Frame

Fta2Next ==
    \E t \in FtaRunIds :
        \/ \E d \in DeltaSet, n \in {1, MaxTopN} :
              Fta2Start(t, [sensitivity_delta |-> d, top_n_sensitivity |-> n,
                            default_severity |-> 3])
        \/ Fta2Minus(t)
        \/ Fta2Plus(t)
        \/ Fta2Finish(t)

SpecFta2 == Fta2Init /\ [][Fta2Next]_vars

-----------------------------------------------------------------------------
(* The level and the score of an AHP result *)

ScoreWindow == 12

\* Composite scores in hundred-thousandths: a coarse grid over [0, 1] and
\* the values within ScoreWindow of a threshold.  A snapshot of one
\* indicator has w_prime = 1 and the score sigmoid(z), which takes any value
\* of (0, 1) as the indicator's value moves.  Scores halfway between two
\* multiples of 0.0001 are left out: round() decides them by the binary
\* expansion of the double.
ScoreGrid ==
    {Rat(n, 100000) :
        n \in {m \in {2500 * k : k \in 0..40}
                      \cup UNION {(t - ScoreWindow)..(t + ScoreWindow) :
                                     t \in {25000, 50000, 75000}} :
                 m % 10 # 5}}

\* Lines 287-304 of _run_ahp on the accumulated total_score: the level is
\* mapped from total_score, the score is reported as round(total_score, 4).
ahp_result(total_score) ==
    [total_score |-> Round4(total_score), risk_level |-> score_to_level(total_score)]

AhpLevelInit ==
    /\ EmptyStore
    /\ FtaCallIdle
    /\ NoCalls

\* The end of _run_ahp for a mission whose contributions add up to
\* total_score.
AhpReport(total_score) ==
    /\ probe' = [fn |-> "ahp_result", accumulated |-> total_score,
                 out |-> ahp_result(total_score)]
    /\ UNCHANGED <<storeVars, ftaCallVars, runVars, rng, mcVars, dsVars, registry, fta_run>>

AhpLevelNext == \E total_score \in ScoreGrid : AhpReport(total_score)

SpecAhpLevel == AhpLevelInit /\ [][AhpLevelNext]_vars

-----------------------------------------------------------------------------
(* Properties *)

\* C1: run never lets an exception reach its caller, whatever the context
\* holds, a params value that is not a dict included: no call of run ends by
\* raising.
C1_RunNeverThrows ==
    \A t \in DOMAIN thr : thr[t].pc # "escaped"

\* C2: a call of run without mission_id returns a failed ModelResult and has
\* issued no query, for each of the six models.
C2_MissingMissionFails ==
    \A t \in DOMAIN thr :
        (thr[t].pc = "returned" /\ thr[t].mission = NoMission) =>
            (~thr[t].success /\ thr[t].loads = 0)

\* C3: after the FTA sensitivity analysis completes, every BASIC node object
\* holds the probability it held before the analysis started (any value in
\* [0,1], or unset).
C3_RestoredAfterAnalysis ==
    fta_pc = "done" =>
        \A b \in DOMAIN node_dict :
            node_dict[b].node_type = "BASIC" =>
                node_dict[b].probability = fta_node[b].probability

\* C4: when recomputing the top event raises while a node is perturbed, the
\* node is back at its original probability when the failure has left
\* _sensitivity_analysis.  Stated for the nodes whose stored probability is
\* set and non-zero, for which orig_prob is the stored value.
C4_RestoredOnFailure ==
    fta_pc = "failed" =>
        \A b \in DOMAIN node_dict :
            (node_dict[b].node_type = "BASIC" /\ Truthy(fta_node[b].probability)) =>
                node_dict[b].probability = fta_node[b].probability


\* Rows the Top-N list of a call is cut from.
RankedRows(c) ==
    IF c.model = "risk_matrix" THEN Len(risk_event)
    ELSE IF c.model = "fmea" THEN Len(fmea_item)
    ELSE 2 * Len(risk_event)

\* C5: when calls of run on the same Risk Matrix, FMEA or Sensitivity
\* instance overlap, each successful call cuts its Top-N list by the top_n of
\* its own params.
C5_OwnTopN ==
    \A t \in DOMAIN thr :
        (thr[t].pc = "returned" /\ thr[t].success) =>
            thr[t].data[1].top_n_count = MinI(params_top_n(thr[t].params), RankedRows(thr[t]))

\* C8: no step of a call of run changes the record store, whether the call
\* succeeds or fails; and a deterministic model (every model but Monte
\* Carlo) called again with the same context on the unchanged store returns
\* the same result as the first time.
C8_ReadOnlyRepeatable ==
    /\ [][(\E t \in DOMAIN thr : thr[t].pc # "idle" /\ thr'[t] # thr[t])
              => storeVars' = storeVars]_vars
    /\ [](\A t \in DOMAIN thr :
            (thr[t].pc = "returned" /\ thr[t].first # <<>> /\ ~thr[t].faulted
                 /\ thr[t].model # "monte_carlo") =>
                thr[t].first[1] = [success |-> thr[t].success, data |-> thr[t].data])

\* The FTA model has returned its second result on a tree with basic events,
\* sensitivity items included.
C8_Witness ==
    \E t \in DOMAIN thr :
        /\ thr[t].pc = "returned" /\ thr[t].first # <<>> /\ thr[t].model = "fta"
        /\ thr[t].success
        /\ thr[t].data[1].sensitivity # <<>>


\* C6: two Monte Carlo runs with the same random_seed >= 0 and the same
\* other params on the same records return the same statistics, whatever
\* runs came before or between them.
C6_SeededDeterministic ==
    (mc_last # <<>> /\ mc_ref # <<>> /\ mc_last[1].params = mc_ref[1].params
        /\ mc_last[1].params.random_seed >= 0) =>
        mc_last[1].result = mc_ref[1].result

\* A seeded run that drew samples repeats an earlier run with the same
\* params, with an unseeded run just before it.
C6_Witness ==
    /\ mc_last # <<>> /\ mc_ref # <<>>
    /\ mc_last[1].params = mc_ref[1].params
    /\ mc_last[1].params.random_seed >= 0
    /\ mc_last[1].prev_seed = <<-1>>
    /\ mc_last[1].params.run_risk_matrix
    /\ mc_last[1].result.risk_matrix[1].histogram_data # <<>>

\* C7: a run with random_seed = -1 that follows a seeded run draws from
\* system entropy: replayed from another entropy, the same sequence of calls
\* does not always give the same result for the unseeded run.
C7_UnseededFromEntropy ==
    (mc_last # <<>> /\ mc_last[1].params.random_seed = -1
        /\ mc_last[1].prev_seed # <<>> /\ mc_last[1].prev_seed[1] >= 0) =>
        Cardinality(mc_last[1].replay_results) > 1

\* C9: dataset snapshots are append-only: the table only changes by a
\* generation appending one row after the existing rows, which stay as they
\* were, and the number of rows equals the number of generations.
C9_AppendOnly ==
    /\ [](Len(risk_dataset) = gen_count)
    /\ [][risk_dataset' # risk_dataset =>
            /\ gen_count' = gen_count + 1
            /\ Len(risk_dataset') = Len(risk_dataset) + 1
            /\ SubSeq(risk_dataset', 1, Len(risk_dataset)) = risk_dataset]_vars

\* Two snapshots with different payloads: the values changed between the
\* generations and the first snapshot kept its payload.
C9_Witness ==
    /\ Len(risk_dataset) = 2
    /\ gen_count = 2
    /\ risk_dataset[1].dataset_json # risk_dataset[2].dataset_json
    /\ risk_dataset[1].dataset_json.indicators # <<>>

\* C10: with no snapshot for the mission and live numeric indicator values
\* present, the AHP model and the Monte Carlo AHP analysis both compute the
\* score from the live values: the indicator data entering the score is the
\* live data and the score is not zero.
C10_LiveFallback ==
    (ds_call # <<>> /\ ds_call[1].use_dataset /\ ~ds_call[1].had_snapshot
        /\ get_indicator_values(ds_call[1].live, 1) # <<>>) =>
        (/\ ds_call[1].used = get_indicator_values(ds_call[1].live, 1)
         /\ ds_call[1].score # Zero)

\* C11: when the mission's latest snapshot holds a payload that does not
\* parse, an AHP evaluation that prefers the snapshot computes what it
\* computes with no snapshot: its indicator data is the live data and its
\* score is the score of the live values.
C11_CorruptAsAbsent ==
    (/\ ds_call # <<>>
     /\ ds_call[1].model = "ahp_improved"
     /\ ds_call[1].use_dataset
     /\ risk_dataset # <<>>
     /\ risk_dataset[1].dataset_json.text = "garbage") =>
        (/\ ds_call[1].used = get_indicator_values(ds_call[1].live, 1)
         /\ ds_call[1].score = run_ahp(FALSE, risk_dataset, 0, ds_call[1].live).total_score)

\* C12: a run on empty or incomplete input succeeds with the empty result:
\* total 0 and every level count 0 for Risk Matrix and FMEA; top-event
\* probability 0, likelihood level 1, risk level Low and
\* risk_score = likelihood_level * severity_level for FTA.
C12_EmptyInputDefined ==
    LET c == thr[1]
        d == c.data[1]
    IN  c.pc = "returned" =>
            /\ c.success
            /\ c.model \in {"risk_matrix", "fmea"} =>
                  /\ d.total = 0
                  /\ d.top_n = <<>>
                  /\ \A l \in DOMAIN d.level_counts : d.level_counts[l] = 0
            /\ c.model = "fta" =>
                  /\ d.top_event_probability = Zero
                  /\ d.likelihood_level = 1
                  /\ d.risk_level = "Low"
                  /\ d.risk_score = d.likelihood_level * d.severity_level

\* C13: the level of a score is exact at the thresholds and never decreases
\* with the score.  R = L * S lies in 1..25 and is Low up to 4, Medium from 5
\* to 9, High from 10 to 16 and Extreme from 17; RPN = S * O * D lies in
\* 1..1000 and is Low up to 100, Medium from 101 to 300, High from 301 to 600
\* and Extreme above 600; the FTA level of a score is its Risk Matrix level.
C13_LevelsExactAndMonotone ==
    /\ (probe # <<>> /\ probe.fn = "from_score") =>
          /\ probe.score \in 1..25
          /\ probe.level = "Low" <=> probe.score <= 4
          /\ probe.level = "Medium" <=> probe.score \in 5..9
          /\ probe.level = "High" <=> probe.score \in 10..16
          /\ probe.level = "Extreme" <=> probe.score >= 17
          /\ probe.fta_level = probe.level
          /\ \A r \in 1..probe.score :
                /\ LevelRank(from_score(r)) <= LevelRank(probe.level)
                /\ get_risk_level(r) = from_score(r)
    /\ (probe # <<>> /\ probe.fn = "from_rpn") =>
          /\ probe.score \in 1..1000
          /\ probe.level = "Low" <=> probe.score <= 100
          /\ probe.level = "Medium" <=> probe.score \in 101..300
          /\ probe.level = "High" <=> probe.score \in 301..600
          /\ probe.level = "Extreme" <=> probe.score > 600
          /\ \A r \in 1..probe.score : LevelRank(from_rpn(r)) <= LevelRank(probe.level)

\* A score on a threshold has been classified by each function.
C13_Witness ==
    /\ probe # <<>>
    /\ \/ probe.fn = "from_score" /\ probe.score = 16 /\ probe.level = "High"
       \/ probe.fn = "from_rpn" /\ probe.score = 300 /\ probe.level = "Medium"

\* C14: the Risk Matrix result of a non-empty event list: total_risk is the
\* sum of L * S, avg_risk is total_risk / count to the nearest hundredth, the
\* level counts add up to the count, top_n holds min(N, count) events in
\* non-increasing R order and no event left out has a greater R than one kept.
\* Events (3,5), (2,5), (3,4): total 37, average 12.33, three High, first the
\* (3,5) event.
C14_RiskMatrixResult ==
    LET c == thr[1]
        d == c.data[1]
        count == Len(risk_event)
        R(i) == risk_event[i].likelihood * risk_event[i].severity
        N == params_top_n(c.params)
        kept == {d.top_n[k].id : k \in DOMAIN d.top_n}
    IN  (c.pc = "returned" /\ c.model = "risk_matrix" /\ risk_event # <<>>) =>
            /\ c.success
            /\ d.total = SumSeq([i \in 1..count |-> R(i)])
            /\ 2 * AbsI(d.avg_x100 * count - 100 * d.total) <= count
            /\ d.level_counts.Low + d.level_counts.Medium + d.level_counts.High
                   + d.level_counts.Extreme = count
            /\ Len(d.top_n) = MinI(N, count)
            /\ Cardinality(kept) = Len(d.top_n)
            /\ \A k \in DOMAIN d.top_n :
                  /\ d.top_n[k].id \in 1..count
                  /\ d.top_n[k].risk_score = R(d.top_n[k].id)
                  /\ k > 1 => d.top_n[k - 1].risk_score >= d.top_n[k].risk_score
                  /\ \A i \in (1..count) \ kept : R(i) <= d.top_n[k].risk_score
            /\ risk_event = ExampleEvents =>
                  /\ d.total = 37
                  /\ d.avg_x100 = 1233
                  /\ d.level_counts.High = 3
                  /\ d.top_n[1].likelihood = 3 /\ d.top_n[1].severity = 5

\* The example list has been ranked with N = 1.
C14_Witness ==
    /\ thr[1].pc = "returned"
    /\ thr[1].model = "risk_matrix"
    /\ risk_event = ExampleEvents
    /\ thr[1].params.top_n = <<1>>
    /\ thr[1].data[1].top_n_count = 1

\* C15: one-at-a-time sensitivity.  Every risk event gets one factor for L
\* and one for S (steps of 1 kept within 1..5), every FMEA item one factor
\* for O and one for D and none for S (steps kept within 1..10).  minus_value
\* and plus_value are the totals with only that rating changed,
\* minus_value <= base_value <= plus_value, impact_score is the larger
\* deviation from the base, and top_n holds the min(N, count) factors of
\* greatest impact in non-increasing order.
C15_OneAtATime ==
    LET c == thr[1]
        d == c.data[1]
        rm == c.params.analysis_type = "risk_matrix"
        count == IF rm THEN Len(risk_event) ELSE Len(fmea_item)
        hi == IF rm THEN 5 ELSE 10
        Down(x) == MaxI(1, x - 1)
        Up(x) == MinI(hi, x + 1)
        \* the rating a factor varies, and the record's score as a function of it
        Rating(i, pt) ==
            CASE pt = "L" -> risk_event[i].likelihood
              [] pt = "S" -> risk_event[i].severity
              [] pt = "O" -> fmea_item[i].O
              [] OTHER -> fmea_item[i].D
        ScoreWith(i, pt, x) ==
            CASE pt = "L" -> x * risk_event[i].severity
              [] pt = "S" -> risk_event[i].likelihood * x
              [] pt = "O" -> fmea_item[i].S * x * fmea_item[i].D
              [] OTHER -> fmea_item[i].S * fmea_item[i].O * x
        Score(j) == IF rm THEN risk_event[j].likelihood * risk_event[j].severity
                    ELSE fmea_item[j].S * fmea_item[j].O * fmea_item[j].D
        TotalWith(i, pt, x) ==
            SumSeq([j \in 1..count |-> IF j = i THEN ScoreWith(i, pt, x) ELSE Score(j)])
        Key(f) == <<f.event_id, f.param_type>>
        keys == {Key(d.factors[k]) : k \in DOMAIN d.factors}
        kept == {Key(d.top_n[k]) : k \in DOMAIN d.top_n}
        N == params_top_n(c.params)
    IN  (c.pc = "returned" /\ c.model = "sensitivity" /\ count > 0) =>
            /\ c.success
            /\ Len(d.factors) = 2 * count
            /\ keys = (1..count) \X (IF rm THEN {"L", "S"} ELSE {"O", "D"})
            /\ \A k \in DOMAIN d.factors :
                  LET f == d.factors[k]
                      x == Rating(f.event_id, f.param_type)
                  IN  /\ f.base_value = SumSeq([j \in 1..count |-> Score(j)])
                      /\ f.minus_value = TotalWith(f.event_id, f.param_type, Down(x))
                      /\ f.plus_value = TotalWith(f.event_id, f.param_type, Up(x))
                      /\ f.minus_value <= f.base_value
                      /\ f.base_value <= f.plus_value
                      /\ f.impact_score >= f.base_value - f.minus_value
                      /\ f.impact_score >= f.plus_value - f.base_value
                      /\ f.impact_score \in {f.base_value - f.minus_value,
                                             f.plus_value - f.base_value}
            /\ Len(d.top_n) = MinI(N, 2 * count)
            /\ Cardinality(kept) = Len(d.top_n)
            /\ \A k \in DOMAIN d.top_n :
                  /\ \E j \in DOMAIN d.factors : d.factors[j] = d.top_n[k]
                  /\ k > 1 => d.top_n[k - 1].impact_score >= d.top_n[k].impact_score
                  /\ \A j \in DOMAIN d.factors :
                        Key(d.factors[j]) \notin kept =>
                            d.factors[j].impact_score <= d.top_n[k].impact_score

\* A sensitivity run has ranked the factors of an FMEA item rated at an end
\* of the scale and kept fewer factors than it built.
C15_Witness ==
    /\ thr[1].pc = "returned"
    /\ thr[1].model = "sensitivity"
    /\ thr[1].params.analysis_type = "fmea"
    /\ Len(fmea_item) = 2
    /\ fmea_item[1].O = 10
    /\ fmea_item[2].D = 1
    /\ thr[1].data[1].top_n_count = 2
    /\ Len(thr[1].data[1].factors) = 4

\* C16: propagation over an acyclic graph.  A basic event evaluates to its
\* stored probability, an AND gate to the product of its children, any other
\* gate to 1 - prod(1 - child), a gate without children to 0; exactly the
\* nodes reachable from the root are evaluated, each once; every probability
\* lies in [0, 1]; AND over (1/2, 1/2) is 1/4 and OR is 3/4.
C16_Propagation ==
    (probe # <<>> /\ probe.fn = "calculate_probabilities") =>
        LET nd == probe.node
            cm == probe.edge
            res == probe.result
            Prod[i \in DOMAIN nd] ==
                [k \in 0..Len(cm[i]) |->
                    IF k = 0 THEN One ELSE RMul(Prod[i][k - 1], res[cm[i][k]])]
            Comp[i \in DOMAIN nd] ==
                [k \in 0..Len(cm[i]) |->
                    IF k = 0 THEN One ELSE RMul(Comp[i][k - 1], RSub(One, res[cm[i][k]]))]
        IN  /\ DOMAIN res = ReachableFrom(cm, {probe.root})
            /\ \A i \in DOMAIN res :
                  /\ Cardinality({k \in DOMAIN probe.trace : probe.trace[k] = i}) = 1
                  /\ RLe(Zero, res[i]) /\ RLe(res[i], One)
                  /\ (nd[i].node_type = "BASIC" /\ nd[i].probability # NoneP) =>
                        res[i] = nd[i].probability
                  /\ (nd[i].node_type # "BASIC" /\ cm[i] = <<>>) => res[i] = Zero
                  /\ (nd[i].node_type # "BASIC" /\ cm[i] # <<>> /\ nd[i].gate_type = "AND") =>
                        res[i] = Prod[i][Len(cm[i])]
                  /\ (nd[i].node_type # "BASIC" /\ cm[i] # <<>> /\ nd[i].gate_type # "AND") =>
                        res[i] = RSub(One, Comp[i][Len(cm[i])])
            /\ (Len(nd) = 3 /\ nd[2].probability = Rat(1, 2) /\ nd[3].probability = Rat(1, 2)) =>
                  res[1] = IF nd[1].gate_type = "AND" THEN Rat(1, 4) ELSE Rat(3, 4)

\* Two gates sharing a basic event have been evaluated under an OR gate, the
\* shared event at 1/2.
C16_Witness ==
    /\ probe # <<>>
    /\ probe.fn = "calculate_probabilities"
    /\ Len(probe.node) = 6
    /\ probe.node[1].gate_type = "OR"
    /\ probe.node[2].gate_type = "AND"
    /\ probe.node[5].probability = Rat(1, 2)
    /\ Len(probe.trace) = 6
    /\ probe.result[1] # Zero

\* C17: an FTA run on a fault tree that is a single basic event without
\* edges reports that event's stored probability as the top-event
\* probability.
C17_BasicEventAsTop ==
    LET c == thr[1]
    IN  (/\ c.pc = "returned" /\ c.model = "fta"
         /\ Len(fta_node) = 1 /\ fta_node[1].node_type = "BASIC"
         /\ fta_node[1].probability # NoneP) =>
            /\ c.success
            /\ c.data[1].top_event_probability = fta_node[1].probability

\* C18: the top-event probability is monotone in each basic event.  Under an
\* OR gate beside one other event of probability below 1, a greater
\* probability of a basic event gives a strictly greater top-event
\* probability; and every sensitivity item of a run has
\* minus_prob <= top-event probability <= plus_prob and
\* impact_score = max(|minus_prob - base|, |plus_prob - base|).
C18_MonotoneInBasicEvents ==
    LET c == thr[1]
        d == c.data[1]
        top == get_top_node(fta_node)
        TopWith(b, p) ==
            GetProb(calculate_probabilities(top, [fta_node EXCEPT ![b].probability = p],
                                            fta_edge), top)
    IN  (c.pc = "returned" /\ c.model = "fta" /\ c.success /\ c.mission = <<1>>
         /\ fta_node # <<>> /\ top # 0) =>
            /\ \A k \in DOMAIN d.sensitivity :
                  LET it == d.sensitivity[k]
                  IN  /\ RLe(it.minus_prob, d.top_event_probability)
                      /\ RLe(d.top_event_probability, it.plus_prob)
                      /\ it.impact_score =
                            RMax(RAbs(RSub(it.minus_prob, d.top_event_probability)),
                                 RAbs(RSub(it.plus_prob, d.top_event_probability)))
            /\ (fta_node[top].gate_type = "OR" /\ fta_edge[top] = <<2, 3>>
                /\ fta_node[3].node_type = "BASIC" /\ fta_node[3].probability # One) =>
                  \A p \in StoredProbSet, q \in StoredProbSet :
                      (RLt(p, q) /\ fta_node[3].probability # NoneP) =>
                          RLt(TopWith(2, p), TopWith(2, q))

\* C19: when every indicator's value equals its reference mean (z = 0), the
\* correction factors of an AHP evaluation are all equal, each corrected
\* weight is the indicator's weight over the sum of the weights, and the
\* corrected weights sum to 1, whatever the sigmas.
C19_ZeroZKeepsWeights ==
    (/\ ds_call # <<>> /\ ds_call[1].model = "ahp_improved"
     /\ ds_call[1].used # <<>>
     /\ \A k \in DOMAIN ds_call[1].used : ds_call[1].used[k].value = ds_call[1].used[k].mu) =>
        LET e == ds_call[1]
            w_sum == RSum([k \in 1..Len(e.used) |-> e.used[k].weight])
        IN  /\ \A j \in DOMAIN e.c, k \in DOMAIN e.c : e.c[j] = e.c[k]
            /\ \A k \in DOMAIN e.w_prime : e.w_prime[k] = RDiv(e.used[k].weight, w_sum)
            /\ RSum(e.w_prime) = One

\* C20: when the sum of w_k * c_k over the n indicators is 0, every corrected
\* weight is 1/n in the AHP model and in the Monte Carlo AHP score, the
\* corrected weights sum to 1, and the two give the same score.
C20_UniformFallback ==
    (/\ ds_call # <<>> /\ ds_call[1].used # <<>>
     /\ RSum(weight_correction(ds_call[1].used)) = Zero) =>
        LET e == ds_call[1]
            n == Len(e.used)
        IN  /\ \A k \in DOMAIN e.w_prime : e.w_prime[k] = Rat(1, n)
            /\ RSum(e.w_prime) = One
            /\ e.score = Round4(ahp_total_score(e.used))
            /\ e.score = Round4(mc_calc_ahp_score(e.used))

\* C21: a weighted_sum rule whose weight list does not have one weight per
\* input fuses to the unweighted mean of the inputs that have a value,
\* whichever inputs are missing.
C21_MismatchedWeightsMean ==
    (/\ probe # <<>> /\ probe.fn = "apply_fusion_rule"
     /\ probe.rule.method = "weighted_sum"
     /\ probe.rule.weights_ok
     /\ Len(probe.rule.weights) # Len(probe.rule.input_ids)
     /\ input_values(probe.rule.input_ids, probe.vals, 1) # <<>>) =>
        /\ ~probe.out.error
        /\ probe.out.value = RMean(input_values(probe.rule.input_ids, probe.vals, 1))

\* C22: a discrete indicator whose probs do not sum to 1 gets the mu and the
\* sigma (here its square, the variance) of the uniform distribution over its
\* values, also when the probs list has the right length.
C22_BadProbsUniform ==
    (/\ probe # <<>> /\ probe.fn = "get_mu_sigma"
     /\ RSum(probe.probs) # One) =>
        LET vs == probe.values
            mean == RMean(vs)
        IN  /\ probe.out.mu = mean
            /\ probe.out.var =
                  RDiv(RSum([k \in 1..Len(vs) |-> RMul(RSub(vs[k], mean), RSub(vs[k], mean))]),
                       Rat(Len(vs), 1))

\* C23: the registry holds at most one instance per model_id.  After
\* register(m), get(m.model_id) is m and every other id is as before; after
\* unregister(id), get(id) is None and every other id is as before, an
\* unknown id changing nothing; constructing ModelRegistry() again changes
\* nothing; get_model_ids has no duplicates and matches get_all;
\* get_models_by_category(c) holds exactly the registered models of category
\* c; after the import the six built-in models are listed.
C23_RegistryStep ==
    LET before == registry.models
        after == registry'.models
        op == registry'.op
        ids == RegIdSet \cup {BuiltinModels[k].model_id : k \in DOMAIN BuiltinModels}
    IN  /\ \A j \in DOMAIN after, k \in DOMAIN after : after[j].key = after[k].key => j = k
        /\ Len(get_all(after)) = Len(get_model_ids(after))
        /\ \A k \in DOMAIN after : get_model_ids(after)[k] = get_all(after)[k].model_id
        /\ \A c \in CategorySet :
              LET got == get_models_by_category(after, c)
              IN  /\ {got[k] : k \in DOMAIN got} =
                         {after[k].model : k \in {j \in DOMAIN after : after[j].model.category = c}}
                  /\ Len(got) = Cardinality({j \in DOMAIN after : after[j].model.category = c})
        /\ op.op = "register" =>
              /\ registry_get(after, op.model.model_id) = <<op.model>>
              /\ \A id \in ids \ {op.model.model_id} :
                    registry_get(after, id) = registry_get(before, id)
        /\ op.op = "unregister" =>
              /\ registry_get(after, op.model_id) = <<>>
              /\ \A id \in ids \ {op.model_id} :
                    registry_get(after, id) = registry_get(before, id)
              /\ registry_get(before, op.model_id) = <<>> => after = before
        /\ op.op = "new" =>
              /\ after = before
              /\ registry.instance # 0 => registry'.instance = registry.instance
        /\ op.op = "import" =>
              /\ \A k \in DOMAIN BuiltinModels :
                    registry_get(after, BuiltinModels[k].model_id) = <<BuiltinModels[k]>>
              /\ before = <<>> => get_all(after) = BuiltinModels

C23_RegistryCatalog == [][C23_RegistryStep]_vars

\* After the import a second risk_matrix instance has replaced the built-in
\* one and fta has been unregistered.
C23_Witness ==
    /\ registry.imported
    /\ registry_get(registry.models, "risk_matrix") =
          <<[model_id |-> "risk_matrix", category |-> "risk_assessment", obj |-> 2]>>
    /\ registry_get(registry.models, "fta") = <<>>
    /\ Len(registry.models) = 5


\* What a parameter's spec asks of a supplied value: the class of its type
\* (a bool being an int to Python), the range for numbers, membership for
\* enums.
Conforms(spec, value) ==
    CASE spec.param_type = "int" -> IsInstanceInt(value) /\ range_check(spec, value) = ""
      [] spec.param_type = "float" -> IsInstanceNumber(value) /\ range_check(spec, value) = ""
      [] spec.param_type = "enum" -> value.t = "str" /\ value.str \in spec.enum_values
      [] spec.param_type = "bool" -> value.t = "bool"
      [] OTHER -> value.t = "str"

AllConform(schema, params) ==
    \A k \in 1..Len(schema) :
        schema[k].name \in DOMAIN params => Conforms(schema[k], params[schema[k].name])

\* C24: validate_params answers (True, '') exactly when every supplied
\* parameter conforms to its spec, whatever the parameter's type, and
\* (False, reason) with a reason otherwise; the model's defaults pass.
C24_ValidateParamsComplete ==
    (probe # <<>> /\ probe.fn \in {"validate_params", "validate_defaults"}) =>
        /\ probe.out.valid <=> AllConform(param_schema(probe.model_id), probe.params)
        /\ probe.out.valid => probe.out.msg = ""
        /\ ~probe.out.valid => probe.out.msg # ""
        /\ probe.fn = "validate_defaults" => probe.out.valid


\* The values a resampling of nominal may return.
Neighbourhood(nominal, min_val, max_val) ==
    {nominal - 1, nominal, nominal + 1} \cap (min_val..max_val)

\* 0.6 for the nominal value and 0.2 for a neighbour, over the sum of the
\* weights of the values in range.
ExpectedProb(v, nominal, min_val, max_val) ==
    Rat(IF v = nominal THEN 6 ELSE 2,
        6 + 2 * (Cardinality(Neighbourhood(nominal, min_val, max_val)) - 1))

\* C25: resampling n in [min, max] returns a value of {n-1, n, n+1} inside
\* [min, max], drawn with weight 0.6 for n and 0.2 for each neighbour in
\* range, renormalised (3/4 and 1/4 at an end of the domain); so every sampled
\* L and S is in 1..5, every S, O, D in 1..10, every R in 1..25 and every RPN
\* in 1..1000.
C25_ResampleInDomain ==
    probe # <<>> =>
        /\ probe.fn = "sample_discrete" =>
             LET nb == Neighbourhood(probe.nominal, probe.min_val, probe.max_val)
             IN  /\ probe.out \in nb
                 /\ {probe.cands[i] : i \in 1..Len(probe.cands)} = nb
                 /\ Len(probe.cands) = Cardinality(nb)
                 /\ Len(probe.probs) = Len(probe.cands)
                 /\ \A i \in 1..Len(probe.cands) :
                       probe.probs[i] = ExpectedProb(probe.cands[i], probe.nominal,
                                                     probe.min_val, probe.max_val)
                 /\ RSum(probe.probs) = One
                 /\ probe.nominal \in {probe.min_val, probe.max_val} =>
                       probe.probs = <<Rat(3, 4), Rat(1, 4)>>
        /\ probe.fn = "run_risk_matrix" =>
             \A k \in 1..probe.n_samples :
                 /\ probe.l[k] \in Neighbourhood(probe.event.likelihood, 1, LevelMax)
                 /\ probe.s[k] \in Neighbourhood(probe.event.severity, 1, LevelMax)
                 /\ probe.rows[k][1] = probe.l[k] * probe.s[k]
                 /\ probe.rows[k][1] \in 1..(LevelMax * LevelMax)
        /\ probe.fn = "run_fmea" =>
             \A k \in 1..probe.n_samples :
                 /\ probe.s[k] \in Neighbourhood(probe.item.S, 1, RatingMax)
                 /\ probe.o[k] \in Neighbourhood(probe.item.O, 1, RatingMax)
                 /\ probe.d[k] \in Neighbourhood(probe.item.D, 1, RatingMax)
                 /\ probe.rows[k][1] = probe.s[k] * probe.o[k] * probe.d[k]
                 /\ probe.rows[k][1] \in 1..(RatingMax * RatingMax * RatingMax)

\* A rating at the top of its domain was resampled to the value below it,
\* and an FMEA item rated 10, 10, 10 was sampled below 1000.
C25_Witness ==
    /\ probe # <<>>
    /\ \/ /\ probe.fn = "sample_discrete"
          /\ probe.nominal = probe.max_val
          /\ probe.out = probe.max_val - 1
       \/ /\ probe.fn = "run_fmea"
          /\ probe.item = [S |-> RatingMax, O |-> RatingMax, D |-> RatingMax]
          /\ probe.rows[1][1] < RatingMax * RatingMax * RatingMax


\* The declared weight of the indicator with the given id.
DeclaredWeight(id) ==
    IndicatorTable[CHOOSE i \in 1..Len(IndicatorTable) : IndicatorTable[i].id = id].weight

\* The weights of every indicator of a snapshot, fused indicators included.
SnapshotWeights(dataset_json) ==
    [k \in 1..Len(all_indicators(dataset_json)) |-> all_indicators(dataset_json)[k].weight]

\* C26: in every generated dataset the weight of an included indicator is its
\* declared weight over the sum of the declared weights of the included
\* indicators, and the weights of all indicators of the dataset, fused
\* indicators included, sum to 1.
C26_WeightsSumToOne ==
    \A r \in 1..Len(risk_dataset) :
        LET dj == risk_dataset[r].dataset_json
            declared == RSum([k \in 1..Len(dj.indicators) |->
                                 DeclaredWeight(dj.indicators[k].indicator_id)])
        IN  (dj.text = "json" /\ dj.indicators # <<>>) =>
                /\ \A k \in 1..Len(dj.indicators) :
                      dj.indicators[k].weight =
                          RDiv(DeclaredWeight(dj.indicators[k].indicator_id), declared)
                /\ RSum(SnapshotWeights(dj)) = One


\* The probability _calc_node_prob reads from a BASIC node (line 286).
EffectiveProb(p) == IF p # NoneP THEN p ELSE DefaultBasicProb

\* C27: when the top event has been recomputed with basic event b perturbed,
\* every other basic event of the evaluated graph counts with the
\* probability it had before the analysis, and the baseline of the deltas is
\* the top-event probability of the stored graph.
C27_OthersAtStoredValue ==
    fta_pc = "plus" =>
        /\ \A c \in DOMAIN node_dict :
              (node_dict[c].node_type = "BASIC" /\ c # basic_nodes(node_dict)[basic_idx]) =>
                  EffectiveProb(node_dict[c].probability)
                      = EffectiveProb(fta_node[c].probability)
        /\ base_p_top = GetProb(calculate_probabilities(get_top_node(fta_node),
                                                        fta_node, fta_edge),
                                get_top_node(fta_node))


\* The items the loop of _sensitivity_analysis appends when the run is the
\* only one, in loop order.
ItemsAlone(c) ==
    sensitivity_loop(fta_node, fta_edge, get_top_node(fta_node),
                     c.params.sensitivity_delta,
                     GetProb(calculate_probabilities(get_top_node(fta_node), fta_node,
                                                     fta_edge),
                             get_top_node(fta_node)),
                     1)[1]

\* C28: two FTA runs on the same mission that interleave at any statement
\* each work on the node objects they loaded themselves: the baseline and
\* every item of a run are those of the run alone, and each returns the
\* result it returns alone.
C28_RunsIsolated ==
    \A t \in FtaRunIds :
        LET c == fta_run[t]
            turn == IF c.pc = "plus" THEN c.basic_idx ELSE c.basic_idx - 1
        IN  /\ (c.pc \in {"minus", "plus", "finish"}) =>
                  /\ c.base_p_top
                        = run_fta(fta_node, fta_edge, c.params)[1].top_event_probability
                  /\ c.results = SubSeq(ItemsAlone(c), 1, Len(c.results))
                  /\ \A b \in DOMAIN c.node_dict :
                        (c.node_dict[b].probability = fta_node[b].probability)
                        \/ (c.pc = "plus" /\ b = basic_nodes(c.node_dict)[c.basic_idx])
                        \/ /\ b \in {basic_nodes(c.node_dict)[i] : i \in 1..(c.basic_idx - 1)}
                           /\ c.node_dict[b].probability = OrigProbOf(fta_node[b].probability)
            /\ (c.pc = "plus") =>
                  (c.p_top_minus = ItemsAlone(c)[c.basic_idx].minus_prob)
            /\ (c.pc = "done") => (c.result = run_fta(fta_node, fta_edge, c.params)[1])

\* Both runs hold a perturbed node at once, in different turns of the loop.
C28_Witness ==
    /\ fta_run # <<>>
    /\ fta_run[1].pc = "plus" /\ fta_run[1].basic_idx = 1
    /\ fta_run[2].pc = "plus" /\ fta_run[2].basic_idx = 2
    /\ fta_run[1].node_dict # fta_run[2].node_dict


\* C29: the snapshot an AHP or Monte Carlo evaluation consumes is the row of
\* the most recent generation, also when the latest generations fall into
\* the same second.
C29_LatestGenerationConsumed ==
    (ds_call # <<>> /\ risk_dataset # <<>> /\ ds_call[1].use_dataset) =>
        /\ get_latest_by_mission(risk_dataset, 1, tie_break) = Len(risk_dataset)
        /\ ds_call[1].model = "ahp_improved" =>
              ds_call[1].used = run_ahp(TRUE, risk_dataset, Len(risk_dataset),
                                        indicator_value).indicator_results
        /\ ds_call[1].model = "monte_carlo" =>
              ds_call[1].used = mc_ahp_indicators(risk_dataset, Len(risk_dataset))


\* C30: the risk_level of an AHP result is the level of the total_score the
\* result reports (the score rounded to 4 decimals), also for scores just
\* below a threshold.
C30_LevelOfReportedScore ==
    (probe # <<>> /\ probe.fn = "ahp_result") =>
        probe.out.risk_level = score_to_level(probe.out.total_score)

=============================================================================
